---------------------------- MODULE Spec2Model ----------------------------
(***************************************************************************)
(* Order / ticket resolution core of the BitePlug Discord bot.             *)
(*                                                                         *)
(* The persistent store (MongoDB through Mongoose) is modelled as a        *)
(* document store that keeps the fields the handlers read and assign.      *)
(* Every `await` of a handler is a scheduling point of the Node.js event   *)
(* loop: the code between two awaits runs atomically, and each store       *)
(* operation takes effect atomically at the step that performs it.         *)
(* A save() writes the paths the handler assigned since it loaded the      *)
(* document.  The paths the handlers use but the schemas in models do not  *)
(* declare (Order.charged, Order.totalPrice, Order.deliveredAt,            *)
(* User.balanceCents, User.walletBalance) are kept as the handlers assign  *)
(* them, the reading under which the handlers' guards mean what they say.  *)
(*                                                                         *)
(* Spec       two button interactions interleave at their awaits           *)
(* SpecSeq    one button interaction at a time                             *)
(* SpecStats  SpecSeq with the automation's notifications and the clock    *)
(* SpecDaily  concurrent calls of updateDailyStats                         *)
(* SpecCards  the card allocator: concurrent assignVccToOrder, markUsed    *)
(* SpecIngest strict batch ingestion, one upload at a time                 *)
(* SpecUpload concurrent strict uploads and rejected store writes          *)
(* SpecPool   legacy and strict ingestion calls interleaved                *)
(* SpecLegacy legacy line-by-line ingestion, one call at a time            *)
(* SpecChecks inventory checks (timer, /vcc-check), one at a time          *)
(* SpecAlert  the timer's check and the forced check interleaved           *)
(* SpecPollSeq  the ticket poller, one run at a time                       *)
(* SpecPoll     overlapping runs of the ticket poller                      *)
(* SpecPollFair the ticket poller that keeps running                       *)
(* SpecClose  /close by message and by slash command in a ticket channel   *)
(* SpecFormat validateVccFormat on lines of text                           *)
(* SpecReport updateDailyStats with the two /dailystats readers            *)
(* SpecClicks SpecSeq with a store that never rejects a save               *)
(* SpecAnswer /vcc-upload and the file message that answers it             *)
(***************************************************************************)
EXTENDS Integers, FiniteSets, Sequences, TLC

\* ------------------------------------------------------------- bounds
NumOrders   == 1    \* orders in the store
NumHandlers == 2    \* button interactions that may be in flight together
MaxBalance  == 4    \* largest initial balance (minor units)
MaxDay      == 1    \* UTC days 0..MaxDay pass during a run
MaxCount    == 2    \* cap on a daily counter
MaxResolutions == 3 \* cap on the resolutions staff issue during a run
MaxCards    == 2    \* cap on the cards in the inventory store
MaxBatch    == 2    \* longest uploaded batch (lines)
MaxStored   == 3    \* cap on the cards uploads may bring the store to
MaxTicks    == 3    \* clock steps that pass during a run of the monitor
MaxAlerts   == 3    \* cap on the alerts sent during a run of the monitor
BatchLimit  == 2    \* orders a poll takes, limit(10) in the source
MaxChannels == 2    \* cap on the ticket channels created for one order
MaxCloses   == 3    \* cap on the /close requests issued in one channel
MaxEmail    == 4    \* longest email field of a validated line (characters)

\* the null of a document field (schema default: null)
NULL     == -1
Orders   == 1..NumOrders
Users    == {1}
Handlers == 1..NumHandlers
Days     == 0..MaxDay
Cards    == 1..MaxCards

\* concurrent invocations of updateDailyStats, assignVccToOrder,
\* bulkAddVccsStrict and bulkAddVccs
Updaters   == {1, 2}
Allocators == {1, 2}
Uploaders  == {1, 2}
Adders     == {1, 2}

\* index.js: the monitor alerts at or below this many unused cards
VCC_LOW_THRESHOLD == 10
\* slashCommands.js handleVccCheck: its own threshold
LOW_THRESHOLD == 10
\* index.js: milliseconds between two alerts of the monitor
alertCooldown == 60 * 60 * 1000
\* the clock is sampled every half cooldown; the process starts at a
\* Date.now() that is at least one cooldown past the epoch
ClockStep == alertCooldown \div 2
StartTime == alertCooldown
Checkers  == {1, 2}
\* index.js /close: a warning younger than this many milliseconds confirms
CloseWindow  == 10000
\* index.js /close: messages.fetch({ limit: 5 })
HistoryLimit == 5
\* index.js /close and handleClose: setTimeout delay (milliseconds)
DeleteDelay  == 5000
\* poll runs that may overlap, and the orders that wait for a ticket: one
\* more than a poll takes
Pollers    == {1, 2}
PollOrders == 1..(BatchLimit + 1)

\* orderSchema.status enum values this core reads or writes
Terminal == {"delivered", "failed"}

VARIABLES
  orders,      \* Order collection: order number -> document
  users,       \* User collection: user id -> document
  cards,       \* VirtualCard collection: card id -> document
  dailyStats,  \* DailyStats collection: date key -> document or NULL
  ticket,      \* chat transport: state of the ticket channel of each order
  today,       \* the current UTC date (new Date())
  pc,          \* position of each in-flight button interaction
  req,         \* its arguments and the documents it holds in memory
  lastReply,   \* the acknowledgment the last step sent (interaction.reply)
  debits,      \* history: persisted balance debits per order (Success button)
  resolutions, \* history: terminal resolutions persisted per UTC day
  stat,        \* in-flight calls of updateDailyStats
  statCalls,   \* history: calls of updateDailyStats per date key and outcome
  alloc,       \* in-flight calls of assignVccToOrder
  ingest,      \* in-flight calls of bulkAddVccsStrict
  legacy,      \* in-flight calls of bulkAddVccs
  lastAlertSent, \* index.js global: Date.now() of the last alert sent, or 0
  dateNow,     \* the wall clock (Date.now(), milliseconds)
  check,       \* in-flight inventory checks (periodic and /vcc-check)
  alerts,      \* history: the low-inventory alerts sent to the alert channel
  poll,        \* in-flight runs of checkPaymentVerifiedOrders
  channels,    \* chat transport: ticket channels created per order
  closer,      \* the in-flight /close request (message or slash command)
  chan,        \* chat transport: name, recent messages and deletion timer
               \* of the ticket channel of each order
  format,      \* a call of validateVccFormat: its argument and its result
  report       \* a /dailystats request: its entry point, its key and its reply

\* the state of the inventory monitor and of the ticket poller
alertVars == <<lastAlertSent, dateNow, check, alerts>>
pollVars == <<poll, channels>>
closeVars == <<closer, chan>>
callVars == <<format>>
readVars == <<report>>
monitorVars == <<alertVars, pollVars, closeVars, callVars, readVars>>

vars == <<orders, users, cards, dailyStats, ticket, today, pc, req, lastReply,
          debits, resolutions, stat, statCalls, alloc, ingest, legacy, monitorVars>>

\* the state of the service calls, left alone by the ticket handlers
auxVars == <<stat, statCalls, alloc, ingest, legacy, monitorVars>>

\* ------------------------------------------------------------- documents
\* userId of an order; every order has an existing owner
OwnerOf(o) == 1

\* chargeCents of an order (required, immutable): order o costs o + 1 minor units
ChargeOf(o) == o + 1

\* new DailyStats({date, successCount: 0, failureCount: 0})
NewStats == [successCount |-> 0, failureCount |-> 0]

NoReq == [type |-> "none", order |-> 0, balanceCents |-> 0, completedAt |-> NULL]

\* ------------------------------------------------------------- card strings
\* A card string (a line of an upload), by the parts the code looks at:
\*   blank  the line holds nothing but whitespace
\*   sp     whitespace before the first character
\*   comma  a leading comma (card scraper output)
\*   num    the first field: 1, 2 are 16-digit numbers, 0 is a 15-digit number
\*   rest   the other four fields: 1, 2 are well-formed values, 0 holds an
\*          ill-formed value (month 13), -1 lacks one field
\*   pad    whitespace next to the inner commas
\* Whitespace after the last character is removed by trim() before every use.
Str(sp, comma, num, rest, pad) ==
  [blank |-> FALSE, sp |-> sp, comma |-> comma, num |-> num, rest |-> rest,
   pad |-> pad]

\* a whitespace-only line
Blank == [blank |-> TRUE, sp |-> TRUE, comma |-> FALSE, num |-> 0, rest |-> 0,
          pad |-> FALSE]

\* the lines uploads are made of
Lines ==
  { Str(FALSE, FALSE, 1, 1, FALSE),    \* card 1
    Str(FALSE, FALSE, 1, 2, FALSE),    \* card 1, other expiry / cvv / zip / email
    Str(FALSE, FALSE, 1, 1, TRUE),     \* card 1, spaces after the commas
    Str(FALSE, FALSE, 2, 1, FALSE),    \* card 2
    Str(TRUE,  FALSE, 2, 1, FALSE),    \* card 2, indented
    Str(FALSE, FALSE, 0, 1, FALSE),    \* 15-digit card number
    Str(FALSE, FALSE, 1, 0, FALSE),    \* month 13
    Str(FALSE, FALSE, 2, -1, FALSE),   \* four fields
    Str(FALSE, TRUE,  1, 1, FALSE),    \* leading comma
    Blank }

\* String.prototype.trim
Trim(s) == [s EXCEPT !.sp = FALSE]

\* mutant: blank lines are not skipped
IsEmpty_Never(s) == FALSE

\* !cardString, for a trimmed string
IsEmpty(s) == s.blank /\ ~s.sp

\* cardString.replace(/^,/, ''): the pattern is anchored at the first character
StripComma(s) ==
  IF s.comma /\ ~s.sp /\ ~s.blank THEN [s EXCEPT !.comma = FALSE] ELSE s

\* cardString.replace(/^,/, '').trim()
Cleaned(s) == Trim(StripComma(s))

\* cardString.split(',').length
FieldCount(s) ==
  IF s.blank THEN 1
  ELSE (IF s.comma THEN 1 ELSE 0) + (IF s.rest = -1 THEN 4 ELSE 5)

\* validateVccFormat(cardString): "none" when valid, else the failed check.
\* Every part is trimmed before it is tested; behind a leading comma the
\* first part is the empty string.
validateVccFormat(s) ==
  IF FieldCount(s) # 5 THEN "fields"
  ELSE IF s.comma \/ s.num = 0 THEN "card_number"
  ELSE IF s.rest <= 0 THEN "field_value"
  ELSE "none"

\* mutant: split(',')[1]
CardNumberOf_SecondField(s) == s.rest

\* cardString.split(',')[0].trim() of a well-formed line
CardNumberOf(s) == s.num

\* new VirtualCard({cardString}): schema defaults
NewCard(str, at) ==
  [cardString |-> str, status |-> "unused", usedAt |-> NULL,
   usedForOrderNumber |-> NULL, createdAt |-> at]

\* ------------------------------------------------------------- initial state
NoStat == [pc |-> "idle", type |-> "none", date |-> 0, doc |-> NewStats,
           isNew |-> FALSE]

NoAlloc == [pc |-> "idle", order |-> 0, vcc |-> NULL]

\* the value bulkAddVccsStrict returned last: {success, added}
NoResult == [success |-> FALSE, added |-> 0]

\* before: the card store as it was when the call started (history)
NoIngest == [pc |-> "idle", lines |-> <<>>, i |-> 0, seen |-> {},
             errors |-> {}, duplicates |-> {}, added |-> 0, before |-> <<>>,
             result |-> NoResult]

\* added, failed, errors: the results object bulkAddVccs builds and returns;
\* before: the card store as it was when the call started (history)
NoLegacy == [pc |-> "idle", lines |-> <<>>, i |-> 0, added |-> 0,
             failed |-> 0, errors |-> {}, before |-> <<>>]

\* forced: called from the /vcc-check message command; originalCooldown:
\* the timestamp that command saved; now: the Date.now() the check read;
\* unused: stats.unused; entry: the timestamp when the check began and
\* outcome: how the last check ended (history)
NoCheck == [pc |-> "idle", forced |-> FALSE, originalCooldown |-> 0,
            now |-> 0, unused |-> 0, entry |-> 0, outcome |-> "none"]

\* kind: "message" (index.js) or "slash" (handleClose); order: the order of
\* the channel the request was issued in; issuedAt, lastWarning: the time of
\* the request and the channel's warnedAt at that time (history)
NoClose == [pc |-> "idle", kind |-> "none", order |-> 0, issuedAt |-> 0,
            lastWarning |-> NULL]

\* name: the prefix of channel.name; warnedAt: createdTimestamp of the bot's
\* latest message that contains 'Warning', or NULL; newer: the messages
\* posted after it (counted up to HistoryLimit); deleteAt: when the
\* deletion timer fires, or NULL; requests: /close requests so far (history)
NewChannel(name) ==
  [name |-> name, warnedAt |-> NULL, newer |-> 0, deleteAt |-> NULL,
   requests |-> 0]

\* cardString: the argument, a sequence of characters; result: "pending"
\* before the call, "called" during it, then "valid" or the check that failed
NoFormat == [cardString |-> <<>>, result |-> "pending"]

\* a /dailystats request before it is made; pc is "done" once it is answered
NoReport == [pc |-> "idle", via |-> "none", day |-> 0, key |-> NULL,
             stats |-> NewStats]

\* batch: the orders the find returned; i: the position of the loop;
\* channel: ticketChannel.id; failed: the orders whose createDiscordTicket
\* threw or gave up in this run (history)
NoPoll == [pc |-> "idle", batch |-> <<>>, i |-> 0, channel |-> NULL,
           failed |-> {}]

NewOrder(o) ==
  [status |-> "payment_verified", charged |-> FALSE,
   completedAt |-> NULL, deliveredAt |-> NULL,
   discordChannelId |-> NULL, assignedVccId |-> NULL,
   vccString |-> NULL,
   userId |-> OwnerOf(o),
   chargeCents |-> ChargeOf(o), totalPrice |-> ChargeOf(o)]

\* nothing in flight, no ticket, no statistics yet
Quiet ==
  /\ dailyStats = [d \in {} |-> NewStats]
  /\ today = 0
  /\ pc = [h \in Handlers |-> "idle"]
  /\ req = [h \in Handlers |-> NoReq]
  /\ lastReply = "none"
  /\ debits = [o \in Orders |-> 0]
  /\ resolutions = [d \in Days |-> 0]
  /\ stat = [p \in Updaters |-> NoStat]
  /\ statCalls = [d \in Days |-> NewStats]
  /\ alloc = [a \in Allocators |-> NoAlloc]
  /\ ingest = [u \in Uploaders |-> NoIngest]
  /\ legacy = [l \in Adders |-> NoLegacy]
  /\ lastAlertSent = 0
  /\ dateNow = StartTime
  /\ check = [k \in Checkers |-> NoCheck]
  /\ alerts = <<>>
  /\ poll = [p \in Pollers |-> NoPoll]
  /\ channels = [o \in PollOrders |-> 0]
  /\ closer = NoClose
  /\ chan = [o \in Orders |-> NewChannel("order-")]
  /\ format = NoFormat
  /\ report = NoReport

Init ==
  /\ Quiet
  /\ orders = [o \in Orders |-> NewOrder(o)]
  /\ \E b \in 0..MaxBalance :
       users = [u \in Users |-> [balanceCents |-> b, walletBalance |-> b]]
  /\ cards = [c \in {1} |-> NewCard(Str(FALSE, FALSE, 1, 1, FALSE), 1)]
  /\ ticket = [o \in Orders |-> "none"]


\* ------------------------------------------------------------- chat transport
\* ticket[o]: "none"     no channel yet
\*            "claim"    channel with the Claim button
\*            "resolve"  Success / Fail buttons enabled
\*            "resolved" Success / Fail disabled, Close Ticket shown
\*            "deleted"  channel deleted
ChannelOf(o) == o
ChannelOpen(o) == ticket[o] \in {"claim", "resolve", "resolved"}

\* checkPaymentVerifiedOrders + createDiscordTicket, for one order of the batch
CreateTicket(o) ==
  /\ UNCHANGED auxVars
  /\ orders[o].status = "payment_verified"
  /\ orders[o].discordChannelId = NULL
  /\ ticket[o] = "none"
  /\ ticket' = [ticket EXCEPT ![o] = "claim"]
  /\ orders' = [orders EXCEPT ![o].discordChannelId = ChannelOf(o),
                              ![o].status = "queued"]
  /\ UNCHANGED <<users, cards, dailyStats, today, pc, req, debits,
                 resolutions>>
  /\ lastReply' = "none"

\* mutant: claiming moves the order on to processing
Claim_Processing(o) ==
  /\ UNCHANGED auxVars
  /\ ticket[o] = "claim"
  /\ ticket' = [ticket EXCEPT ![o] = "resolve"]
  /\ orders' = [orders EXCEPT ![o].status = "processing"]
  /\ UNCHANGED <<users, cards, dailyStats, today, pc, req,
                 debits, resolutions>>
  /\ lastReply' = "none"

\* interactionCreate, action === 'claim': presentation only
Claim(o) ==
  /\ UNCHANGED auxVars
  /\ ticket[o] = "claim"
  /\ ticket' = [ticket EXCEPT ![o] = "resolve"]
  /\ UNCHANGED <<orders, users, cards, dailyStats, today, pc, req,
                 debits, resolutions>>
  /\ lastReply' = "none"

\* interactionCreate, action === 'closeticket'
CloseTicketButton(o) ==
  /\ UNCHANGED auxVars
  /\ ticket[o] = "resolved"
  /\ ticket' = [ticket EXCEPT ![o] = "deleted"]
  /\ UNCHANGED <<orders, users, cards, dailyStats, today, pc, req,
                 debits, resolutions>>
  /\ lastReply' = "none"

\* ------------------------------------------------------------- resolve
\* shouldCharge, set from the button type
ShouldCharge(type) == type = "success"

\* mutant: the charging branch forgets shouldCharge
ChargeBranch_IgnoresType(type, order) == ~order.charged

\* the guard of the charging branch
ChargeBranch(type, order) == ShouldCharge(type) /\ ~order.charged

\* mutant: the balance check is off by one
InsufficientFunds_OffByOne(user, order) ==
  user.balanceCents + 1 < order.chargeCents

InsufficientFunds(user, order) == user.balanceCents < order.chargeCents

\* mutant: = written for -=
Debit_Assign(user, order) ==
  [user EXCEPT !.balanceCents = order.chargeCents]

Debit(user, order) ==
  [user EXCEPT !.balanceCents = @ - order.chargeCents]

MarkDelivered(order, now) ==
  [order EXCEPT !.charged = TRUE, !.status = "delivered", !.completedAt = now]

MarkFailed(order, now) ==
  [order EXCEPT !.status = "failed", !.charged = FALSE, !.completedAt = now]

InFlight == Cardinality({h \in Handlers : pc[h] # "idle"})

RECURSIVE SumUpTo(_, _)
SumUpTo(f, d) == IF d < 0 THEN 0 ELSE f[d] + SumUpTo(f, d - 1)
Resolved == SumUpTo(resolutions, MaxDay)

Finish(h, answer) ==
  /\ pc' = [pc EXCEPT ![h] = "idle"]
  /\ req' = [req EXCEPT ![h] = NoReq]
  /\ lastReply' = answer

\* a Success or Fail button of ticket o is clicked; slot h takes the interaction
Click(h, type, o) ==
  /\ UNCHANGED auxVars
  /\ pc[h] = "idle"
  /\ ticket[o] = "resolve"
  /\ Resolved + InFlight < MaxResolutions
  /\ pc' = [pc EXCEPT ![h] = "findOrder"]
  /\ req' = [req EXCEPT ![h] = [NoReq EXCEPT !.type = type, !.order = o]]
  /\ UNCHANGED <<orders, users, cards, dailyStats, ticket, today,
                 debits, resolutions>>
  /\ lastReply' = "none"

\* Order.findOne resolves; the code runs on to the next await
FindOrder(h) ==
  /\ UNCHANGED auxVars
  /\ pc[h] = "findOrder"
  /\ LET o == req[h].order
         order == orders[o]
     IN IF order.discordChannelId # ChannelOf(o)
          THEN Finish(h, "order_not_found")
        ELSE IF ChargeBranch(req[h].type, order)
          THEN /\ pc' = [pc EXCEPT ![h] = "findUser"]
               /\ lastReply' = "none"
               /\ UNCHANGED req
        ELSE /\ pc' = [pc EXCEPT ![h] = "saveElse"]
             /\ req' = [req EXCEPT ![h].completedAt = today]
             /\ lastReply' = "none"
  /\ UNCHANGED <<orders, users, cards, dailyStats, ticket, today, debits,
                 resolutions>>

\* User.findById resolves; balance check; the debit of the in-memory document
FindUser(h) ==
  /\ UNCHANGED auxVars
  /\ pc[h] = "findUser"
  /\ LET order == orders[req[h].order]
         uid == order.userId
     IN IF uid \notin DOMAIN users
          THEN Finish(h, "user_not_found")
        ELSE IF InsufficientFunds(users[uid], order)
          THEN Finish(h, "insufficient_funds")
        ELSE /\ pc' = [pc EXCEPT ![h] = "saveUser"]
             /\ req' = [req EXCEPT ![h].balanceCents =
                                      Debit(users[uid], order).balanceCents]
             /\ lastReply' = "none"
  /\ UNCHANGED <<orders, users, cards, dailyStats, ticket, today, debits,
                 resolutions>>

\* user.save() persists the modified path balanceCents
SaveUser(h) ==
  /\ UNCHANGED auxVars
  /\ pc[h] = "saveUser"
  /\ LET o == req[h].order
         uid == orders[o].userId
     IN /\ users' = [users EXCEPT ![uid].balanceCents = req[h].balanceCents]
        /\ debits' = [debits EXCEPT ![o] = @ + 1]
  /\ pc' = [pc EXCEPT ![h] = "saveOrder"]
  /\ req' = [req EXCEPT ![h].completedAt = today]
  /\ UNCHANGED <<orders, cards, dailyStats, ticket, today, resolutions>>
  /\ lastReply' = "none"

\* order.save() persists charged, status, completedAt; the success reply
SaveOrder(h) ==
  /\ UNCHANGED auxVars
  /\ pc[h] = "saveOrder"
  /\ LET o == req[h].order
     IN orders' = [orders EXCEPT ![o] = MarkDelivered(@, req[h].completedAt)]
  /\ resolutions' = [resolutions EXCEPT ![today] = @ + 1]
  /\ pc' = [pc EXCEPT ![h] = "editMsg"]
  /\ lastReply' = "success"
  /\ UNCHANGED <<users, cards, dailyStats, ticket, today, req, debits>>

\* the else branch: order.save() persists status, charged, completedAt
SaveElse(h) ==
  /\ UNCHANGED auxVars
  /\ pc[h] = "saveElse"
  /\ LET o == req[h].order
     IN orders' = [orders EXCEPT ![o] = MarkFailed(@, req[h].completedAt)]
  /\ resolutions' = [resolutions EXCEPT ![today] = @ + 1]
  /\ pc' = [pc EXCEPT ![h] = "editMsg"]
  /\ lastReply' = "failed"
  /\ UNCHANGED <<users, cards, dailyStats, ticket, today, req, debits>>

\* a save() rejects (StoreFailure): the catch block answers with an error
SaveThrows(h) ==
  /\ UNCHANGED auxVars
  /\ pc[h] \in {"saveUser", "saveOrder", "saveElse"}
  /\ Finish(h, "error")
  /\ UNCHANGED <<orders, users, cards, dailyStats, ticket, today, debits,
                 resolutions>>

\* messages.fetch({limit: 10}) and msg.edit: the Success / Fail buttons are
\* disabled when the ticket message is among the last 10 messages
EditMsg(h) ==
  /\ UNCHANGED auxVars
  /\ pc[h] = "editMsg"
  /\ LET o == req[h].order
     IN \/ /\ ChannelOpen(o)
           /\ ticket' = [ticket EXCEPT ![o] = "resolved"]
        \/ UNCHANGED ticket
  /\ pc' = [pc EXCEPT ![h] = "idle"]
  /\ req' = [req EXCEPT ![h] = NoReq]
  /\ UNCHANGED <<orders, users, cards, dailyStats, today, debits,
                 resolutions>>
  /\ lastReply' = "none"


\* ------------------------------------------------------------- /complete-order
\* handleCompleteOrder, run in the ticket channel of order o
CompleteOrder(o) ==
  /\ UNCHANGED auxVars
  /\ ChannelOpen(o)
  /\ LET order == orders[o]
         uid == order.userId
     IN /\ order.discordChannelId = ChannelOf(o)
        /\ order.status # "delivered"
        /\ uid \in DOMAIN users
        /\ ~(users[uid].walletBalance < order.totalPrice)
        /\ users' = [users EXCEPT ![uid].walletBalance = @ - order.totalPrice]
        /\ orders' = [orders EXCEPT ![o].status = "delivered",
                                    ![o].deliveredAt = today]
  /\ UNCHANGED <<cards, dailyStats, ticket, today, pc, req, debits,
                 resolutions>>
  /\ lastReply' = "none"

\* ------------------------------------------------------------- cards
UnusedCards == {c \in DOMAIN cards : cards[c].status = "unused"}

\* mutant: sort({createdAt: -1})
getUnusedVcc_Newest ==
  IF UnusedCards = {} THEN NULL
  ELSE CHOOSE c \in UnusedCards :
         \A d \in UnusedCards : cards[c].createdAt >= cards[d].createdAt

\* getUnusedVcc: the unused card with the earliest createdAt, or NULL
getUnusedVcc ==
  IF UnusedCards = {} THEN NULL
  ELSE CHOOSE c \in UnusedCards :
         \A d \in UnusedCards : cards[c].createdAt <= cards[d].createdAt

\* assignVccToOrder(orderId)
AssignVccToOrder(o) ==
  /\ UNCHANGED auxVars
  /\ getUnusedVcc # NULL
  /\ orders[o].assignedVccId = NULL
  /\ orders' = [orders EXCEPT ![o].assignedVccId = getUnusedVcc,
                              ![o].vccString = cards[getUnusedVcc].cardString]
  /\ UNCHANGED <<users, cards, dailyStats, ticket, today, pc, req,
                 debits, resolutions>>
  /\ lastReply' = "none"

\* assignVccToOrder(orderId), await by await.  In the ticket specifications
\* AssignVccToOrder takes both store operations in one step: no other action
\* of those specifications reads or writes a card or an order's card fields.
PoolOrders == {1, 2}

\* an order id that resolves to no order
MissingOrder == 0

AllocCall(a, o) ==
  /\ alloc[a].pc = "idle"
  /\ alloc' = [alloc EXCEPT ![a] = [NoAlloc EXCEPT !.pc = "getUnused",
                                                  !.order = o]]
  /\ lastReply' = "none"
  /\ UNCHANGED <<orders, users, cards, dailyStats, ticket, today, pc, req,
                 debits, resolutions, stat, statCalls, ingest,
                 legacy, monitorVars>>

\* getUnusedVcc() resolves or throws
AllocGet(a) ==
  /\ alloc[a].pc = "getUnused"
  /\ IF getUnusedVcc = NULL
       THEN /\ alloc' = [alloc EXCEPT ![a] = NoAlloc]
            /\ lastReply' = "pool_exhausted"
       ELSE /\ alloc' = [alloc EXCEPT ![a].pc = "update",
                                      ![a].vcc = getUnusedVcc]
            /\ lastReply' = "none"
  /\ UNCHANGED <<orders, users, cards, dailyStats, ticket, today, pc, req,
                 debits, resolutions, stat, statCalls, ingest,
                 legacy, monitorVars>>

\* mutant: the null check on the updated order is inverted
OrderMissing_Inverted(o) == o \in DOMAIN orders

\* if (!order): Order.findByIdAndUpdate resolved to null
OrderMissing(o) == o \notin DOMAIN orders

\* Order.findByIdAndUpdate(orderId, {assignedVccId, vccString}) resolves
AllocUpdate(a) ==
  /\ alloc[a].pc = "update"
  /\ LET o == alloc[a].order
         vcc == alloc[a].vcc
     IN /\ orders' = IF o \in DOMAIN orders
                       THEN [orders EXCEPT
                               ![o].assignedVccId = vcc,
                               ![o].vccString = cards[vcc].cardString]
                       ELSE orders
        /\ lastReply' = IF OrderMissing(o) THEN "order_not_found"
                        ELSE "assigned"
  /\ alloc' = [alloc EXCEPT ![a] = NoAlloc]
  /\ UNCHANGED <<users, cards, dailyStats, ticket, today, pc, req,
                 debits, resolutions, stat, statCalls, ingest,
                 legacy, monitorVars>>

\* markVccAsUsed(vccId, orderNumber): VirtualCard.findByIdAndUpdate
MarkVccAsUsed(c, o) ==
  /\ IF c \in DOMAIN cards
       THEN /\ cards' = [cards EXCEPT ![c].status = "used",
                                      ![c].usedAt = today,
                                      ![c].usedForOrderNumber = o]
            /\ lastReply' = "marked"
       ELSE /\ UNCHANGED cards
            /\ lastReply' = "card_not_found"
  /\ UNCHANGED <<orders, users, dailyStats, ticket, today, pc, req,
                 debits, resolutions, stat, statCalls, alloc, ingest,
                 legacy, monitorVars>>

\* ------------------------------------------------------------- strict ingestion
\* bulkAddVccsStrict(cardStrings), await by await
BatchesOf(L) == UNION {[1..n -> L] : n \in 0..MaxBatch}

Batches == BatchesOf(Lines)

\* the lines of the uploads that overlap: one card written plainly and as
\* card scraper output, an indented card, a blank line
PoolLines ==
  { Str(FALSE, FALSE, 1, 1, FALSE),
    Str(FALSE, TRUE,  1, 1, FALSE),
    Str(TRUE,  FALSE, 2, 1, FALSE),
    Blank }

PoolBatches == BatchesOf(PoolLines)

RECURSIVE LinesInFlight(_)
LinesInFlight(S) ==
  IF S = {} THEN 0
  ELSE LET u == CHOOSE x \in S : TRUE
       IN Len(ingest[u].lines) + LinesInFlight(S \ {u})

RECURSIVE LegacyInFlight(_)
LegacyInFlight(S) ==
  IF S = {} THEN 0
  ELSE LET l == CHOOSE x \in S : TRUE
       IN Len(legacy[l].lines) + LegacyInFlight(S \ {l})

\* VirtualCard.findOne({cardString: str})
FindCard(str) == {c \in DOMAIN cards : cards[c].cardString = str}

\* mutant: the collection has no unique index
UniqueIndexRejects_NoIndex(str) == FALSE

\* cardString {unique: true}: save() of a string the collection holds throws
UniqueIndexRejects(str) == FindCard(str) # {}

\* newCard.save() of a string the unique index admits
Inserted(str) ==
  LET n == Len(cards)
  IN [c \in 1..(n + 1) |-> IF c <= n THEN cards[c] ELSE NewCard(str, n + 1)]

Return(u, success, added, answer) ==
  /\ ingest' = [ingest EXCEPT
                  ![u] = [NoIngest EXCEPT
                            !.result = [success |-> success, added |-> added]]]
  /\ lastReply' = answer

UploadCall(u, batch) ==
  /\ ingest[u].pc = "idle"
  /\ Len(cards) + LinesInFlight(Uploaders) + LegacyInFlight(Adders)
       + Len(batch) <= MaxStored
  /\ ingest' = [ingest EXCEPT ![u] = [NoIngest EXCEPT !.pc = "validate",
                                                     !.lines = batch,
                                                     !.i = 1,
                                                     !.before = cards]]
  /\ lastReply' = "none"
  /\ UNCHANGED <<orders, users, cards, dailyStats, ticket, today, pc, req,
                 debits, resolutions, stat, statCalls, alloc,
                 legacy, monitorVars>>

\* validateVccBatch: one iteration of the loop
ValidateLine(u) ==
  /\ ingest[u].pc = "validate"
  /\ ingest[u].i <= Len(ingest[u].lines)
  /\ LET i == ingest[u].i
         cardString == Trim(ingest[u].lines[i])
         next == [ingest[u] EXCEPT !.i = i + 1]
     IN ingest' = [ingest EXCEPT ![u] =
          IF IsEmpty(cardString) THEN next
          ELSE IF validateVccFormat(cardString) # "none"
            THEN [next EXCEPT !.errors = @ \cup {i}]
          ELSE IF CardNumberOf(cardString) \in ingest[u].seen
            THEN [next EXCEPT !.duplicates = @ \cup {i}]
          ELSE IF FindCard(Cleaned(cardString)) # {}
            THEN [next EXCEPT !.seen = @ \cup {CardNumberOf(cardString)},
                              !.duplicates = @ \cup {i}]
          ELSE [next EXCEPT !.seen = @ \cup {CardNumberOf(cardString)}]]
  /\ lastReply' = "none"
  /\ UNCHANGED <<orders, users, cards, dailyStats, ticket, today, pc, req,
                 debits, resolutions, stat, statCalls, alloc,
                 legacy, monitorVars>>

\* validateVccBatch returns; bulkAddVccsStrict rejects or starts to commit
Validated(u) ==
  /\ ingest[u].pc = "validate"
  /\ ingest[u].i > Len(ingest[u].lines)
  /\ IF ingest[u].errors = {} /\ ingest[u].duplicates = {}
       THEN /\ ingest' = [ingest EXCEPT ![u].pc = "commit", ![u].i = 1]
            /\ lastReply' = "none"
       ELSE Return(u, FALSE, 0, "rejected")
  /\ UNCHANGED <<orders, users, cards, dailyStats, ticket, today, pc, req,
                 debits, resolutions, stat, statCalls, alloc,
                 legacy, monitorVars>>

\* the commit loop: one iteration; save() throws on a string the unique
\* index on cardString already holds
CommitLine(u) ==
  /\ ingest[u].pc = "commit"
  /\ ingest[u].i <= Len(ingest[u].lines)
  /\ LET i == ingest[u].i
         trimmed == Trim(ingest[u].lines[i])
         cleanedString == Cleaned(trimmed)
     IN IF IsEmpty(trimmed)
          THEN /\ ingest' = [ingest EXCEPT ![u].i = i + 1]
               /\ lastReply' = "none"
               /\ UNCHANGED cards
        ELSE IF UniqueIndexRejects(cleanedString)
          THEN /\ Return(u, FALSE, 0, "db_error")
               /\ UNCHANGED cards
        ELSE /\ cards' = Inserted(cleanedString)
             /\ ingest' = [ingest EXCEPT ![u].i = i + 1,
                                         ![u].added = @ + 1]
             /\ lastReply' = "none"
  /\ UNCHANGED <<orders, users, dailyStats, ticket, today, pc, req,
                 debits, resolutions, stat, statCalls, alloc,
                 legacy, monitorVars>>

\* newCard.save() rejects (StoreFailure): the catch block returns
CommitThrows(u) ==
  /\ ingest[u].pc = "commit"
  /\ ingest[u].i <= Len(ingest[u].lines)
  /\ ~IsEmpty(Trim(ingest[u].lines[ingest[u].i]))
  /\ Return(u, FALSE, 0, "db_error")
  /\ UNCHANGED <<orders, users, cards, dailyStats, ticket, today, pc, req,
                 debits, resolutions, stat, statCalls, alloc,
                 legacy, monitorVars>>

\* the commit loop is through: {success: true, added: added.length}
Committed(u) ==
  /\ ingest[u].pc = "commit"
  /\ ingest[u].i > Len(ingest[u].lines)
  /\ Return(u, TRUE, ingest[u].added, "accepted")
  /\ UNCHANGED <<orders, users, cards, dailyStats, ticket, today, pc, req,
                 debits, resolutions, stat, statCalls, alloc,
                 legacy, monitorVars>>

\* ------------------------------------------------------------- legacy ingestion
\* bulkAddVccs(cardStrings): addVcc line by line, await by await
LegacyCall(l, batch) ==
  /\ legacy[l].pc = "idle"
  /\ Len(cards) + LinesInFlight(Uploaders) + LegacyInFlight(Adders)
       + Len(batch) <= MaxStored
  /\ legacy' = [legacy EXCEPT ![l] = [NoLegacy EXCEPT !.pc = "findOne",
                                                     !.lines = batch,
                                                     !.i = 1,
                                                     !.before = cards]]
  /\ lastReply' = "none"
  /\ UNCHANGED <<orders, users, cards, dailyStats, ticket, today, pc, req,
                 debits, resolutions, stat, statCalls, alloc, ingest, monitorVars>>

\* mutant: the catch block forgets results.failed++
LineFailed_NotCounted(r) ==
  [r EXCEPT !.pc = "findOne", !.i = @ + 1, !.errors = @ \cup {r.i}]

\* the catch block of bulkAddVccs: results.failed++, results.errors.push
LineFailed(r) ==
  [r EXCEPT !.pc = "findOne", !.i = @ + 1, !.failed = @ + 1,
            !.errors = @ \cup {r.i}]

\* addVcc up to its first await: the string is cleaned, must split into five
\* parts, and must not be found in the collection
AddFind(l) ==
  /\ legacy[l].pc = "findOne"
  /\ legacy[l].i <= Len(legacy[l].lines)
  /\ LET cleanedString == Cleaned(legacy[l].lines[legacy[l].i])
     IN legacy' = [legacy EXCEPT ![l] =
          IF FieldCount(cleanedString) # 5 THEN LineFailed(@)
          ELSE IF FindCard(cleanedString) # {} THEN LineFailed(@)
          ELSE [@ EXCEPT !.pc = "save"]]
  /\ lastReply' = "none"
  /\ UNCHANGED <<orders, users, cards, dailyStats, ticket, today, pc, req,
                 debits, resolutions, stat, statCalls, alloc, ingest, monitorVars>>

\* addVcc: newCard.save(); results.added++
AddSave(l) ==
  /\ legacy[l].pc = "save"
  /\ LET cleanedString == Cleaned(legacy[l].lines[legacy[l].i])
     IN IF UniqueIndexRejects(cleanedString)
          THEN /\ legacy' = [legacy EXCEPT ![l] = LineFailed(@)]
               /\ UNCHANGED cards
          ELSE /\ cards' = Inserted(cleanedString)
               /\ legacy' = [legacy EXCEPT ![l].pc = "findOne",
                                           ![l].i = @ + 1,
                                           ![l].added = @ + 1]
  /\ lastReply' = "none"
  /\ UNCHANGED <<orders, users, dailyStats, ticket, today, pc, req,
                 debits, resolutions, stat, statCalls, alloc, ingest, monitorVars>>

\* bulkAddVccs returns results
LegacyReturn(l) ==
  /\ legacy[l].pc = "findOne"
  /\ legacy[l].i > Len(legacy[l].lines)
  /\ legacy' = [legacy EXCEPT ![l] = NoLegacy]
  /\ lastReply' = "legacy_results"
  /\ UNCHANGED <<orders, users, cards, dailyStats, ticket, today, pc, req,
                 debits, resolutions, stat, statCalls, alloc, ingest, monitorVars>>

\* ------------------------------------------------------------- upload messages
\* fileContent.split('\n').map(line => line.trim()).filter(line => line.length > 0)
CardStringsOf(file) ==
  SelectSeq([i \in DOMAIN file |-> Trim(file[i])], LAMBDA s : ~IsEmpty(s))

\* the /vcc-upload message command: the prompt is sent and the handler waits
\* in awaitMessages for a message of the same author with an attachment
VccUploadCommand(u) ==
  /\ ingest[u].pc = "idle"
  /\ ingest' = [ingest EXCEPT ![u] = [NoIngest EXCEPT !.pc = "awaitMessages"]]
  /\ lastReply' = "prompt"
  /\ UNCHANGED <<orders, users, cards, dailyStats, ticket, today, pc, req,
                 debits, resolutions, stat, statCalls, alloc,
                 legacy, monitorVars>>

\* the author answers the prompt with a .txt file. The message is one
\* messageCreate event: the collector of awaitMessages resolves with it, and
\* the messageCreate listener runs on it as on any message and reaches the
\* attachment branch. Each of the two fetches the file and calls its
\* ingestion with the non-empty trimmed lines.
FileUploaded(u, l, file) ==
  /\ ingest[u].pc = "awaitMessages"
  /\ legacy[l].pc = "idle"
  /\ LET cardStrings == CardStringsOf(file)
     IN /\ Len(cards) + LinesInFlight(Uploaders) + LegacyInFlight(Adders)
             + Len(cardStrings) <= MaxStored
        /\ IF cardStrings = <<>>
             THEN /\ ingest' = [ingest EXCEPT ![u] = NoIngest]
                  /\ UNCHANGED legacy
                  /\ lastReply' = "empty_file"
             ELSE /\ ingest' = [ingest EXCEPT ![u] =
                                  [NoIngest EXCEPT !.pc = "validate",
                                                   !.lines = cardStrings,
                                                   !.i = 1,
                                                   !.before = cards]]
                  /\ legacy' = [legacy EXCEPT ![l] =
                                  [NoLegacy EXCEPT !.pc = "findOne",
                                                   !.lines = cardStrings,
                                                   !.i = 1,
                                                   !.before = cards]]
                  /\ lastReply' = "none"
  /\ UNCHANGED <<orders, users, cards, dailyStats, ticket, today, pc, req,
                 debits, resolutions, stat, statCalls, alloc, monitorVars>>

\* ------------------------------------------------------------- daily stats
\* stats.successCount += 1, stats.failureCount += 1
AddOne(rec, type) ==
  IF type = "success" THEN [rec EXCEPT !.successCount = @ + 1]
  ELSE IF type = "failure" THEN [rec EXCEPT !.failureCount = @ + 1]
  ELSE rec

\* updateDailyStats(type) run without interleaving: fetch-or-create today's
\* record, add one, save
updateDailyStats(stats, type) ==
  LET rec == IF today \in DOMAIN stats THEN stats[today] ELSE NewStats
      new == AddOne(rec, type)
  IN [d \in DOMAIN stats \cup {today} |-> IF d = today THEN new ELSE stats[d]]

CountOf(d) ==
  IF d \notin DOMAIN dailyStats THEN 0
  ELSE dailyStats[d].successCount + dailyStats[d].failureCount

\* sendOrderNotification(type, ...), called by the automation through
\* global.sendOrderNotification; a failure counts on the last attempt only
SendOrderNotification(type, lastAttempt) ==
  /\ UNCHANGED auxVars
  /\ CountOf(today) < MaxCount
  /\ dailyStats' =
       IF type = "success" \/ (type = "failure" /\ lastAttempt)
         THEN updateDailyStats(dailyStats, type)
         ELSE dailyStats
  /\ dailyStats' # dailyStats
  /\ UNCHANGED <<orders, users, cards, ticket, today, pc, req, debits,
                 resolutions>>
  /\ lastReply' = "none"

\* updateDailyStats(type), await by await.  The date key is computed on entry.
StatsInFlight == Cardinality({p \in Updaters : stat[p].pc # "idle"})

UpdateCall(p, type) ==
  /\ stat[p].pc = "idle"
  /\ statCalls[today].successCount + statCalls[today].failureCount < MaxCount
  /\ stat' = [stat EXCEPT ![p] = [NoStat EXCEPT !.pc = "findOne",
                                               !.type = type, !.date = today]]
  /\ statCalls' = [statCalls EXCEPT ![today] = AddOne(@, type)]
  /\ lastReply' = "none"
  /\ UNCHANGED <<orders, users, cards, dailyStats, ticket, today, pc, req,
                 debits, resolutions, alloc, ingest,
                 legacy, monitorVars>>

\* DailyStats.findOne resolves; a missing record is built in memory; += 1
UpdateFind(p) ==
  /\ stat[p].pc = "findOne"
  /\ LET d == stat[p].date
         found == d \in DOMAIN dailyStats
         rec == IF found THEN dailyStats[d] ELSE NewStats
     IN stat' = [stat EXCEPT ![p].pc = "save",
                             ![p].doc = AddOne(rec, stat[p].type),
                             ![p].isNew = ~found]
  /\ lastReply' = "none"
  /\ UNCHANGED <<orders, users, cards, dailyStats, ticket, today, pc, req,
                 debits, resolutions, statCalls, alloc, ingest,
                 legacy, monitorVars>>

\* stats.save(): a loaded document writes the counter it modified; a new one
\* is inserted, and the unique index on date rejects a second insert, which
\* the catch block logs and drops
UpdateSave(p) ==
  /\ stat[p].pc = "save"
  /\ LET d == stat[p].date
         doc == stat[p].doc
     IN dailyStats' =
          IF stat[p].isNew
            THEN IF d \in DOMAIN dailyStats THEN dailyStats
                 ELSE [e \in DOMAIN dailyStats \cup {d} |->
                         IF e = d THEN doc ELSE dailyStats[e]]
          ELSE IF stat[p].type = "success"
            THEN [dailyStats EXCEPT ![d].successCount = doc.successCount]
          ELSE [dailyStats EXCEPT ![d].failureCount = doc.failureCount]
  /\ stat' = [stat EXCEPT ![p] = NoStat]
  /\ lastReply' = "none"
  /\ UNCHANGED <<orders, users, cards, ticket, today, pc, req,
                 debits, resolutions, statCalls, alloc, ingest,
                 legacy, monitorVars>>

\* midnight UTC
Tick ==
  /\ UNCHANGED auxVars
  /\ today < MaxDay
  /\ today' = today + 1
  /\ UNCHANGED <<orders, users, cards, dailyStats, ticket, pc, req,
                 debits, resolutions>>
  /\ lastReply' = "none"

\* ------------------------------------------------------------- inventory monitor
\* getVccStats().unused
UnusedCount == Cardinality(UnusedCards)

ChecksInFlight == {k \in Checkers : check[k].pc # "idle"}

MonitorFrame ==
  UNCHANGED <<orders, users, cards, dailyStats, ticket, today, pc, req,
              lastReply, debits, resolutions, stat, statCalls, alloc, ingest,
              legacy, pollVars, closeVars, callVars, readVars>>

\* the setInterval timer calls checkVccInventoryAndAlert; await getVccStats()
PeriodicCheck(k) ==
  /\ check[k].pc = "idle"
  /\ check' = [check EXCEPT ![k] = [NoCheck EXCEPT !.pc = "stats",
                                                   !.entry = lastAlertSent]]
  /\ UNCHANGED <<lastAlertSent, dateNow, alerts>>
  /\ MonitorFrame

\* a check that has ended keeps what the history needs
Ended(c, outcome) ==
  [NoCheck EXCEPT !.forced = c.forced, !.entry = c.entry,
                  !.outcome = outcome]

\* a staff member sends the message /vcc-check; await getVccStats()
ForcedCheck(k) ==
  /\ check[k].pc = "idle"
  /\ check' = [check EXCEPT ![k] = [NoCheck EXCEPT !.pc = "forced_stats",
                                                   !.forced = TRUE,
                                                   !.entry = lastAlertSent]]
  /\ UNCHANGED <<lastAlertSent, dateNow, alerts>>
  /\ MonitorFrame

\* /vcc-check after its stats: below or at the threshold it saves the
\* timestamp, zeroes it and calls checkVccInventoryAndAlert
ForcedStats(k) ==
  /\ check[k].pc = "forced_stats"
  /\ IF UnusedCount <= VCC_LOW_THRESHOLD
       THEN /\ check' = [check EXCEPT ![k].pc = "stats",
                                      ![k].originalCooldown = lastAlertSent]
            /\ lastAlertSent' = 0
       ELSE /\ check' = [check EXCEPT ![k] = Ended(check[k], "healthy")]
            /\ UNCHANGED lastAlertSent
  /\ UNCHANGED <<dateNow, alerts>>
  /\ MonitorFrame

\* /vcc-check when checkVccInventoryAndAlert has returned: a timestamp that
\* is still 0 is put back to the saved one; last: the timestamp the check
\* leaves
Restored_Never(c, last) == last

Restored(c, last) ==
  IF c.forced /\ last = 0 THEN c.originalCooldown ELSE last

\* checkVccInventoryAndAlert returns (and /vcc-check with it)
CheckReturns(k, last, outcome) ==
  /\ check' = [check EXCEPT ![k] = Ended(check[k], outcome)]
  /\ lastAlertSent' = Restored(check[k], last)

\* stats.unused <= VCC_LOW_THRESHOLD
IsLow(unused) == unused <= VCC_LOW_THRESHOLD

\* now - lastAlertSent < alertCooldown
InCooldown == dateNow - lastAlertSent < alertCooldown

\* checkVccInventoryAndAlert after its stats: healthy or within the
\* cooldown it returns, otherwise it goes on to fetch the channel and send
CheckStats(k) ==
  /\ check[k].pc = "stats"
  /\ IF IsLow(UnusedCount) /\ ~InCooldown
       THEN /\ check' = [check EXCEPT ![k].pc = "send", ![k].now = dateNow,
                                      ![k].unused = UnusedCount]
            /\ UNCHANGED lastAlertSent
       ELSE CheckReturns(k, lastAlertSent,
                         IF IsLow(UnusedCount) THEN "cooldown" ELSE "healthy")
  /\ UNCHANGED <<dateNow, alerts>>
  /\ MonitorFrame

Alert(at, by, unused) == [at |-> at, by |-> by, unused |-> unused]

\* alertChannel.send resolves; lastAlertSent = now
AlertSent(k) ==
  /\ check[k].pc = "send"
  /\ Len(alerts) < MaxAlerts
  /\ alerts' = Append(alerts,
                      Alert(check[k].now,
                            IF check[k].forced THEN "forced" ELSE "periodic",
                            check[k].unused))
  /\ CheckReturns(k, check[k].now, "sent")
  /\ UNCHANGED dateNow
  /\ MonitorFrame

\* the channel is not found, or fetch or send throws: logged, nothing set
AlertFails(k) ==
  /\ check[k].pc = "send"
  /\ CheckReturns(k, lastAlertSent, "failed")
  /\ UNCHANGED <<dateNow, alerts>>
  /\ MonitorFrame

\* the slash command /vcc-check (handleVccCheck): below its threshold it
\* sends the alert itself and never reads or sets lastAlertSent
SlashCheck ==
  /\ UnusedCount < LOW_THRESHOLD
  /\ Len(alerts) < MaxAlerts
  /\ alerts' = Append(alerts, Alert(dateNow, "slash", UnusedCount))
  /\ UNCHANGED <<lastAlertSent, dateNow, check>>
  /\ MonitorFrame

\* time passes
ClockTick ==
  /\ dateNow < StartTime + MaxTicks * ClockStep
  /\ dateNow' = dateNow + ClockStep
  /\ UNCHANGED <<lastAlertSent, check, alerts>>
  /\ MonitorFrame

\* ------------------------------------------------------------- ticket poller
PollFrame ==
  UNCHANGED <<users, cards, dailyStats, today, pc, req, lastReply, debits,
              resolutions, stat, statCalls, alloc, ingest, legacy, alertVars,
              closeVars, callVars, readVars>>

\* Order.find({status: 'payment_verified', discordChannelId: null})
Matching ==
  {o \in DOMAIN orders : /\ orders[o].status = "payment_verified"
                         /\ orders[o].discordChannelId = NULL}

\* .limit(n) of an unsorted find: any n of the matching orders, in any order
Limited(M, n) ==
  LET len == IF Cardinality(M) < n THEN Cardinality(M) ELSE n
  IN {b \in [1..len -> M] : \A i, j \in 1..len : i # j => b[i] # b[j]}

\* the setInterval timer calls checkPaymentVerifiedOrders; orders.length > 0
PollStart(p) ==
  /\ poll[p].pc = "idle"
  /\ Matching # {}
  /\ \E b \in Limited(Matching, BatchLimit) :
       poll' = [poll EXCEPT ![p] = [NoPoll EXCEPT !.pc = "create",
                                                  !.batch = b, !.i = 1]]
  /\ UNCHANGED <<orders, ticket, channels>>
  /\ PollFrame

\* the order the loop is at
Current(q) == q.batch[q.i]

\* the id of the n-th channel created for order o
NthChannel(o, n) == ChannelOf(o) + n * (BatchLimit + 1)

\* the loop is over: the run ends
PollEnded(q) == [q EXCEPT !.pc = "idle", !.i = 0, !.channel = NULL]

\* for (const order of orders): on to the next order of the batch
NextOrder(q) ==
  IF q.i < Len(q.batch)
    THEN [q EXCEPT !.pc = "create", !.i = @ + 1, !.channel = NULL]
    ELSE PollEnded(q)

\* mutant: the error of createDiscordTicket leaves the loop
Caught_Rethrown(q) == PollEnded(q)

\* catch (error) inside the loop: logged, the loop goes on
Caught(q) == NextOrder(q)

\* createDiscordTicket: guild fetched, guild.channels.create resolved
ChannelCreated(p) ==
  /\ poll[p].pc = "create"
  /\ LET o == Current(poll[p])
     IN /\ channels[o] < MaxChannels
        /\ channels' = [channels EXCEPT ![o] = @ + 1]
        /\ poll' = [poll EXCEPT ![p].pc = "send",
                                ![p].channel = NthChannel(o, channels[o])]
  /\ UNCHANGED <<orders, ticket>>
  /\ PollFrame

\* createDiscordTicket: customer looked up, ticket message with the Claim
\* button sent
MessageSent(p) ==
  /\ poll[p].pc = "send"
  /\ ticket' = [ticket EXCEPT ![Current(poll[p])] = "claim"]
  /\ poll' = [poll EXCEPT ![p].pc = "save"]
  /\ UNCHANGED <<orders, channels>>
  /\ PollFrame

\* createDiscordTicket: order.save() writes the two assigned paths of the
\* document the find returned
OrderSaved(p) ==
  /\ poll[p].pc = "save"
  /\ orders' = [orders EXCEPT
                  ![Current(poll[p])].discordChannelId = poll[p].channel,
                  ![Current(poll[p])].status = "queued"]
  /\ poll' = [poll EXCEPT ![p] = NextOrder(poll[p])]
  /\ UNCHANGED <<ticket, channels>>
  /\ PollFrame

\* createDiscordTicket throws at one of its awaits (or returns for want of
\* the guild or the category): nothing is written to the order
TicketFails(p) ==
  /\ poll[p].pc \in {"create", "send", "save"}
  /\ poll' = [poll EXCEPT
                ![p] = Caught([poll[p] EXCEPT
                                 !.failed = @ \cup {Current(poll[p])}])]
  /\ UNCHANGED <<orders, ticket, channels>>
  /\ PollFrame

\* ------------------------------------------------------------- /close
CloseFrame ==
  UNCHANGED <<orders, users, cards, dailyStats, today, pc, req, lastReply,
              debits, resolutions, stat, statCalls, alloc, ingest, legacy,
              lastAlertSent, check, alerts, pollVars, callVars,
              readVars>>

\* a message is posted in the channel: one more after the latest warning
Posted(c) ==
  [c EXCEPT !.newer = IF @ < HistoryLimit THEN @ + 1 ELSE @]

\* the bot posts a message that contains 'Warning'
Warned(c) == [c EXCEPT !.warnedAt = dateNow, !.newer = 0]

\* a warning of the bot younger than CloseWindow stands in the channel
FreshWarning(c) ==
  /\ c.warnedAt # NULL
  /\ dateNow - c.warnedAt < CloseWindow

\* recent.some(...): among the last HistoryLimit messages there is one of the
\* bot that contains 'Warning' and is younger than CloseWindow
HasWarning(c) == FreshWarning(c) /\ c.newer < HistoryLimit

\* setTimeout(() => channel.delete(), 5000), after the closing reply
Scheduled(c) ==
  [Posted(c) EXCEPT !.deleteAt = IF @ = NULL THEN dateNow + DeleteDelay ELSE @]

Issued(kind, o) ==
  [NoClose EXCEPT !.pc = "find", !.kind = kind, !.order = o,
                  !.issuedAt = dateNow, !.lastWarning = chan[o].warnedAt]

\* someone sends the message /close in the channel of order o; a channel
\* whose name does not start with 'order-' is refused
MessageClose(o) ==
  /\ closer.pc = "idle"
  /\ ChannelOpen(o)
  /\ chan[o].requests < MaxCloses
  /\ IF chan[o].name = "order-"
       THEN /\ closer' = Issued("message", o)
            /\ chan' = [chan EXCEPT ![o] = [Posted(@) EXCEPT !.requests = @ + 1]]
       ELSE /\ closer' = NoClose
            /\ chan' = [chan EXCEPT
                          ![o] = [Posted(Posted(@)) EXCEPT !.requests = @ + 1]]
  /\ UNCHANGED <<ticket, dateNow>>
  /\ CloseFrame

\* Order.findOne({orderNumber, discordChannelId: message.channel.id})
\* resolved: an order that is found and not charged is warned about
MessageFind ==
  /\ closer.pc = "find"
  /\ closer.kind = "message"
  /\ LET o == closer.order
         found == orders[o].discordChannelId = ChannelOf(o)
     IN closer' = [closer EXCEPT
                     !.pc = IF found /\ ~orders[o].charged THEN "warn"
                            ELSE "close"]
  /\ UNCHANGED <<ticket, dateNow, chan>>
  /\ CloseFrame

\* message.reply with the warning resolved
MessageWarn ==
  /\ closer.pc = "warn"
  /\ chan' = [chan EXCEPT ![closer.order] = Warned(@)]
  /\ closer' = [closer EXCEPT !.pc = "fetch"]
  /\ UNCHANGED <<ticket, dateNow>>
  /\ CloseFrame

\* messages.fetch resolved: without a recent warning the handler returns
MessageFetch ==
  /\ closer.pc = "fetch"
  /\ closer' = IF HasWarning(chan[closer.order])
                 THEN [closer EXCEPT !.pc = "close"]
                 ELSE NoClose
  /\ UNCHANGED <<ticket, dateNow, chan>>
  /\ CloseFrame

\* the closing reply is sent and the deletion timer set
CloseScheduled ==
  /\ closer.pc = "close"
  /\ chan' = [chan EXCEPT ![closer.order] = Scheduled(@)]
  /\ closer' = NoClose
  /\ UNCHANGED <<ticket, dateNow>>
  /\ CloseFrame

\* the slash command /close (handleClose) in the channel of order o; a
\* channel whose name does not start with 'ticket-' is refused (ephemeral)
SlashClose(o) ==
  /\ closer.pc = "idle"
  /\ ChannelOpen(o)
  /\ chan[o].requests < MaxCloses
  /\ closer' = IF chan[o].name = "ticket-" THEN Issued("slash", o)
               ELSE NoClose
  /\ chan' = [chan EXCEPT ![o].requests = @ + 1]
  /\ UNCHANGED <<ticket, dateNow>>
  /\ CloseFrame

\* handleClose: Order.findOne({orderNumber}) resolved: an order that is
\* neither delivered nor failed is warned about and the handler returns
SlashFind ==
  /\ closer.pc = "find"
  /\ closer.kind = "slash"
  /\ IF orders[closer.order].status \notin Terminal
       THEN /\ chan' = [chan EXCEPT ![closer.order] = Warned(@)]
            /\ closer' = NoClose
       ELSE /\ chan' = [chan EXCEPT ![closer.order] = Scheduled(@)]
            /\ closer' = NoClose
  /\ UNCHANGED <<ticket, dateNow>>
  /\ CloseFrame

\* a staff member renames the fresh channel from order-<n> to ticket-<n>,
\* the name handleClose asks for
ChannelRenamed(o) ==
  /\ ChannelOpen(o)
  /\ chan[o] = NewChannel("order-")
  /\ closer.pc = "idle"
  /\ chan' = [chan EXCEPT ![o].name = "ticket-"]
  /\ UNCHANGED <<ticket, dateNow, closer>>
  /\ CloseFrame

\* someone writes in the channel
ChatMessage(o) ==
  /\ ChannelOpen(o)
  /\ chan[o].newer < HistoryLimit
  /\ chan' = [chan EXCEPT ![o] = Posted(@)]
  /\ UNCHANGED <<ticket, dateNow, closer>>
  /\ CloseFrame

\* the deletion timer fires: channel.delete()
ChannelDeleted(o) ==
  /\ ChannelOpen(o)
  /\ chan[o].deleteAt # NULL
  /\ dateNow >= chan[o].deleteAt
  /\ ticket' = [ticket EXCEPT ![o] = "deleted"]
  /\ UNCHANGED <<dateNow, closer, chan>>
  /\ CloseFrame

\* time passes, one deletion delay at a time
CloseTick ==
  /\ dateNow < StartTime + MaxTicks * DeleteDelay
  /\ dateNow' = dateNow + DeleteDelay
  /\ UNCHANGED <<ticket, closer, chan>>
  /\ CloseFrame

\* ------------------------------------------------------------- validateVccFormat on text
\* a string is a sequence of one-character strings
IsDigit(c) == c \in {"0", "1", "2", "3", "4", "5", "6", "7", "8", "9"}

DigitValue(c) ==
  CASE c = "0" -> 0 [] c = "1" -> 1 [] c = "2" -> 2 [] c = "3" -> 3
    [] c = "4" -> 4 [] c = "5" -> 5 [] c = "6" -> 6 [] c = "7" -> 7
    [] c = "8" -> 8 [] c = "9" -> 9

\* String.prototype.split(','): a pure recursion over the characters
RECURSIVE SplitComma(_)
SplitComma(str) ==
  IF \A i \in DOMAIN str : str[i] # ","
    THEN <<str>>
    ELSE LET i == CHOOSE k \in DOMAIN str :
                    str[k] = "," /\ \A j \in 1..(k - 1) : str[j] # ","
         IN <<SubSeq(str, 1, i - 1)>> \o SplitComma(SubSeq(str, i + 1, Len(str)))

\* String.prototype.trim()
RECURSIVE TrimText(_)
TrimText(str) ==
  IF str = <<>> THEN str
  ELSE IF Head(str) = " " THEN TrimText(Tail(str))
  ELSE IF str[Len(str)] = " " THEN TrimText(SubSeq(str, 1, Len(str) - 1))
  ELSE str

\* /^\d{n}$/
AllDigits(str, n) == Len(str) = n /\ \A i \in DOMAIN str : IsDigit(str[i])

\* /^\d{2}\/\d{2}$/
IsExpiry(str) ==
  /\ Len(str) = 5
  /\ IsDigit(str[1]) /\ IsDigit(str[2])
  /\ str[3] = "/"
  /\ IsDigit(str[4]) /\ IsDigit(str[5])

\* parseInt(expDate.split('/')[0]) of a string that passed IsExpiry
MonthOf(str) == 10 * DigitValue(str[1]) + DigitValue(str[2])

\* mutant: month 00 passes
MonthInRange_NoLowerBound(month) == ~(month > 12)

\* !(month < 1 || month > 12)
MonthInRange(month) == ~(month < 1 \/ month > 12)

\* /^[^\s@]+@[^\s@]+\.[^\s@]+$/
IsEmail(str) ==
  \E i, j \in DOMAIN str :
    /\ 1 < i /\ i + 1 < j /\ j < Len(str)
    /\ str[i] = "@"
    /\ str[j] = "."
    /\ \A k \in DOMAIN str : k # i => str[k] \notin {" ", "@"}

\* validateVccFormat(cardString, lineNumber): "valid", or the first check
\* that fails
validateVccFormatText(cardString) ==
  LET parts == [i \in DOMAIN SplitComma(cardString) |->
                  TrimText(SplitComma(cardString)[i])]
  IN IF Len(parts) # 5 THEN "fields"
     ELSE IF ~AllDigits(parts[1], 16) THEN "card_number"
     ELSE IF ~IsExpiry(parts[2]) THEN "exp_date"
     ELSE IF ~MonthInRange(MonthOf(parts[2])) THEN "month"
     ELSE IF ~AllDigits(parts[3], 3) THEN "cvv"
     ELSE IF ~AllDigits(parts[4], 5) THEN "zip_code"
     ELSE IF ~IsEmail(parts[5]) THEN "email"
     ELSE "valid"

FormatFrame ==
  UNCHANGED <<orders, users, cards, dailyStats, ticket, today, pc, req,
              lastReply, debits, resolutions, stat, statCalls, alloc, ingest,
              legacy, alertVars, pollVars, closeVars, readVars>>

\* validateVccFormat is called on a line
FormatCall(line) ==
  /\ format = NoFormat
  /\ format' = [cardString |-> line, result |-> "called"]
  /\ FormatFrame

\* validateVccFormat returns
ValidateFormat ==
  /\ format.result = "called"
  /\ format' = [format EXCEPT !.result = validateVccFormatText(format.cardString)]
  /\ FormatFrame

\* ------------------------------------------------------------- /dailystats
\* Keys of the DailyStats collection are strings. The key of UTC day d, written
\* YYYY-MM-DD, is d itself; every other string is a number above MaxDay.

\* new Date().toISOString().split('T')[0]
toISODate(d) == d

\* a Date set to midnight and cast to the String type of the date path:
\* Date.prototype.toString(), "Thu Nov 05 2026 00:00:00 GMT+0000 (...)"
castToString(d) == MaxDay + 1 + d

ReportFrame ==
  UNCHANGED <<orders, users, cards, dailyStats, ticket, today, pc, req,
              lastReply, debits, resolutions, stat, statCalls, alloc, ingest,
              legacy, alertVars, pollVars, closeVars, callVars>>

\* DailyStats.findOne({ date: key }), a missing record read as zeros
StatsAt(key) ==
  IF key \in DOMAIN dailyStats THEN dailyStats[key] ELSE NewStats

\* the /dailystats message command calls getTodayStats()
MessageDailyStats ==
  /\ report.pc \in {"idle", "done"}
  /\ report' = [NoReport EXCEPT !.pc = "findOne", !.via = "message",
                                !.day = today, !.key = toISODate(today)]
  /\ ReportFrame

\* the /dailystats slash command, handleDailyStats
SlashDailyStats ==
  /\ report.pc \in {"idle", "done"}
  /\ report' = [NoReport EXCEPT !.pc = "findOne", !.via = "slash",
                                !.day = today, !.key = castToString(today)]
  /\ ReportFrame

\* findOne resolves
DailyStatsFind ==
  /\ report.pc = "findOne"
  /\ report' = [report EXCEPT !.pc = "done", !.stats = StatsAt(report.key)]
  /\ ReportFrame

\* ------------------------------------------------------------- specification
Next ==
  \/ \E o \in Orders : CreateTicket(o)
  \/ \E o \in Orders : Claim(o)
  \/ \E o \in Orders : CloseTicketButton(o)
  \/ \E h \in Handlers, type \in {"success", "fail"}, o \in Orders :
       Click(h, type, o)
  \/ \E h \in Handlers : FindOrder(h)
  \/ \E h \in Handlers : FindUser(h)
  \/ \E h \in Handlers : SaveUser(h)
  \/ \E h \in Handlers : SaveOrder(h)
  \/ \E h \in Handlers : SaveElse(h)
  \/ \E h \in Handlers : SaveThrows(h)
  \/ \E h \in Handlers : EditMsg(h)
  \/ \E o \in Orders : CompleteOrder(o)
  \/ \E o \in Orders : AssignVccToOrder(o)

Spec == Init /\ [][Next]_vars


\* One interaction at a time: staff never have two button clicks in flight.
NextSeq ==
  \/ \E o \in Orders : CreateTicket(o)
  \/ \E o \in Orders : Claim(o)
  \/ \E o \in Orders : CloseTicketButton(o)
  \/ \E type \in {"success", "fail"}, o \in Orders : Click(1, type, o)
  \/ FindOrder(1)
  \/ FindUser(1)
  \/ SaveUser(1)
  \/ SaveOrder(1)
  \/ SaveElse(1)
  \/ SaveThrows(1)
  \/ EditMsg(1)
  \/ \E o \in Orders : CompleteOrder(o)
  \/ \E o \in Orders : AssignVccToOrder(o)

SpecSeq == Init /\ [][NextSeq]_vars

\* One interaction at a time and a store that never rejects a save.
NextClicks ==
  \/ \E o \in Orders : CreateTicket(o)
  \/ \E o \in Orders : Claim(o)
  \/ \E o \in Orders : CloseTicketButton(o)
  \/ \E type \in {"success", "fail"}, o \in Orders : Click(1, type, o)
  \/ FindOrder(1)
  \/ FindUser(1)
  \/ SaveUser(1)
  \/ SaveOrder(1)
  \/ SaveElse(1)
  \/ EditMsg(1)
  \/ \E o \in Orders : CompleteOrder(o)
  \/ \E o \in Orders : AssignVccToOrder(o)

SpecClicks == Init /\ [][NextClicks]_vars

\* The resolutions of SpecSeq with the automation's notifications and the clock.
NextStats ==
  \/ NextSeq
  \/ \E type \in {"success", "failure"}, last \in BOOLEAN :
       SendOrderNotification(type, last)
  \/ Tick

SpecStats == Init /\ [][NextStats]_vars

\* Concurrent calls of updateDailyStats, as the automation issues them.
NextDaily ==
  \/ \E p \in Updaters, type \in {"success", "failure"} : UpdateCall(p, type)
  \/ \E p \in Updaters : UpdateFind(p)
  \/ \E p \in Updaters : UpdateSave(p)
  \/ Tick

SpecDaily == Init /\ [][NextDaily]_vars

\* The daily counters with their two readers.
NextReport ==
  \/ NextDaily
  \/ MessageDailyStats
  \/ SlashDailyStats
  \/ DailyStatsFind

SpecReport == Init /\ [][NextReport]_vars

\* The card allocator over a pool of up to MaxCards cards whose creation
\* times run with or against their ids.
InitCards ==
  /\ Quiet
  /\ orders = [o \in PoolOrders |-> NewOrder(o)]
  /\ users = [u \in Users |-> [balanceCents |-> 0, walletBalance |-> 0]]
  /\ ticket = [o \in PoolOrders |-> "none"]
  /\ \E n \in 0..MaxCards, rev \in BOOLEAN :
       cards = [c \in 1..n |->
                  NewCard(Str(FALSE, FALSE, c, 1, FALSE),
                          IF rev THEN n + 1 - c ELSE c)]

NextCards ==
  \/ \E a \in Allocators, o \in PoolOrders \cup {MissingOrder} : AllocCall(a, o)
  \/ \E a \in Allocators : AllocGet(a)
  \/ \E a \in Allocators : AllocUpdate(a)
  \/ \E c \in Cards, o \in PoolOrders : MarkVccAsUsed(c, o)

SpecCards == InitCards /\ [][NextCards]_vars

\* Strict uploads into a store that starts empty.
InitIngest ==
  /\ Quiet
  /\ orders = [o \in Orders |-> NewOrder(o)]
  /\ users = [u \in Users |-> [balanceCents |-> 0, walletBalance |-> 0]]
  /\ ticket = [o \in Orders |-> "none"]
  /\ cards = <<>>

\* one upload at a time, every store write succeeds
NextIngest ==
  \/ \E batch \in Batches : UploadCall(1, batch)
  \/ ValidateLine(1)
  \/ Validated(1)
  \/ CommitLine(1)
  \/ Committed(1)

SpecIngest == InitIngest /\ [][NextIngest]_vars

\* uploads overlap, and a store write may be rejected
NextUpload ==
  \/ \E u \in Uploaders, batch \in Batches : UploadCall(u, batch)
  \/ \E u \in Uploaders : ValidateLine(u)
  \/ \E u \in Uploaders : Validated(u)
  \/ \E u \in Uploaders : CommitLine(u)
  \/ \E u \in Uploaders : CommitThrows(u)
  \/ \E u \in Uploaders : Committed(u)

SpecUpload == InitIngest /\ [][NextUpload]_vars

\* every writer of the card store: a legacy upload, an addVcc of one string
\* and a strict upload that overlap
NextPool ==
  \/ \E batch \in PoolBatches : LegacyCall(1, batch)
  \/ \E str \in PoolLines : LegacyCall(2, <<str>>)
  \/ \E l \in Adders : AddFind(l)
  \/ \E l \in Adders : AddSave(l)
  \/ \E l \in Adders : LegacyReturn(l)
  \/ \E batch \in PoolBatches : UploadCall(1, batch)
  \/ ValidateLine(1)
  \/ Validated(1)
  \/ CommitLine(1)
  \/ Committed(1)

SpecPool == InitIngest /\ [][NextPool]_vars

\* one legacy upload at a time
NextLegacy ==
  \/ \E batch \in Batches : LegacyCall(1, batch)
  \/ AddFind(1)
  \/ AddSave(1)
  \/ LegacyReturn(1)

SpecLegacy == InitIngest /\ [][NextLegacy]_vars

\* the files sent in answer to the prompt: a card, a second card, a line with
\* month 13, a blank line
AnswerLines ==
  { Str(FALSE, FALSE, 1, 1, FALSE),
    Str(FALSE, FALSE, 2, 1, FALSE),
    Str(FALSE, FALSE, 1, 0, FALSE),
    Blank }

AnswerFiles == BatchesOf(AnswerLines)

\* /vcc-upload and the file that answers it, every store write succeeding
NextAnswer ==
  \/ VccUploadCommand(1)
  \/ \E file \in AnswerFiles : FileUploaded(1, 1, file)
  \/ ValidateLine(1)
  \/ Validated(1)
  \/ CommitLine(1)
  \/ Committed(1)
  \/ AddFind(1)
  \/ AddSave(1)
  \/ LegacyReturn(1)

SpecAnswer == InitIngest /\ [][NextAnswer]_vars


\* the inventory monitor over a store of unused cards around the threshold
Stock == {VCC_LOW_THRESHOLD - 1, VCC_LOW_THRESHOLD, VCC_LOW_THRESHOLD + 1}

InitAlert ==
  /\ Quiet
  /\ orders = [o \in Orders |-> NewOrder(o)]
  /\ users = [u \in Users |-> [balanceCents |-> 0, walletBalance |-> 0]]
  /\ \E n \in Stock :
       cards = [c \in 1..n |-> NewCard(Str(FALSE, FALSE, c, 1, FALSE), c)]
  /\ ticket = [o \in Orders |-> "none"]

\* one inventory check at a time: the timer, the message command, the
\* slash command
NextChecks ==
  \/ ChecksInFlight = {} /\ PeriodicCheck(1)
  \/ ChecksInFlight = {} /\ ForcedCheck(1)
  \/ ChecksInFlight = {} /\ SlashCheck
  \/ ForcedStats(1)
  \/ CheckStats(1)
  \/ AlertSent(1)
  \/ AlertFails(1)
  \/ ChecksInFlight = {} /\ ClockTick

SpecChecks == InitAlert /\ [][NextChecks]_vars

\* the timer's check and the message command interleave at their awaits
NextAlert ==
  \/ PeriodicCheck(1)
  \/ ForcedCheck(2)
  \/ \E k \in Checkers : \/ ForcedStats(k)
                         \/ CheckStats(k)
                         \/ AlertSent(k)
                         \/ AlertFails(k)
  \/ ClockTick

SpecAlert == InitAlert /\ [][NextAlert]_vars

\* the ticket poller over orders that wait for a ticket
InitPoll ==
  /\ Quiet
  /\ orders = [o \in PollOrders |-> NewOrder(o)]
  /\ users = [u \in Users |-> [balanceCents |-> 0, walletBalance |-> 0]]
  /\ cards = <<>>
  /\ ticket = [o \in PollOrders |-> "none"]

PollSteps(p) ==
  \/ ChannelCreated(p)
  \/ MessageSent(p)
  \/ OrderSaved(p)
  \/ TicketFails(p)

\* one run of the poller at a time
NextPollSeq ==
  \/ PollStart(1)
  \/ PollSteps(1)

SpecPollSeq == InitPoll /\ [][NextPollSeq]_vars

\* the poller keeps running, one run at a time; ticket creation never fails
\* for the order inserted last and may fail for the others
LastOrder == BatchLimit + 1

NextPollFair ==
  \/ PollStart(1)
  \/ ChannelCreated(1)
  \/ MessageSent(1)
  \/ OrderSaved(1)
  \/ TicketFails(1) /\ Current(poll[1]) # LastOrder

SpecPollFair ==
  InitPoll /\ [][NextPollFair]_vars /\ WF_vars(NextPollFair)

\* a run that lasts longer than the interval overlaps the next one
NextPoll ==
  \/ \E p \in Pollers : PollStart(p)
  \/ \E p \in Pollers : PollSteps(p)

SpecPoll == InitPoll /\ [][NextPoll]_vars

\* /close in the ticket channel of an order that is queued, delivered or
\* failed
TicketedOrder(o, status) ==
  [NewOrder(o) EXCEPT !.status = status,
                      !.charged = (status = "delivered"),
                      !.discordChannelId = ChannelOf(o),
                      !.completedAt = IF status \in Terminal THEN 0 ELSE NULL]

InitClose ==
  /\ Quiet
  /\ \E status \in {"queued", "delivered", "failed"} :
       /\ orders = [o \in Orders |-> TicketedOrder(o, status)]
       /\ ticket = [o \in Orders |->
                      IF status \in Terminal THEN "resolved" ELSE "resolve"]
  /\ users = [u \in Users |-> [balanceCents |-> 0, walletBalance |-> 0]]
  /\ cards = <<>>

NextClose ==
  \/ \E o \in Orders : \/ MessageClose(o)
                       \/ SlashClose(o)
                       \/ ChatMessage(o)
                       \/ ChannelRenamed(o)
                       \/ ChannelDeleted(o)
  \/ MessageFind
  \/ MessageWarn
  \/ MessageFetch
  \/ CloseScheduled
  \/ SlashFind
  \/ CloseTick

SpecClose == InitClose /\ [][NextClose]_vars

\* validateVccFormat over lines put together from sample fields
Repeat(c, n) == [i \in 1..n |-> c]

CardNumberFields ==
  { Repeat("4", 16), Repeat("4", 15), Repeat("4", 17),
    Repeat("4", 15) \o <<"a">>, <<" ">> \o Repeat("4", 16) }

ExpiryFields ==
  { <<"1", "2", "/", "2", "5">>, <<"0", "1", "/", "2", "5">>,
    <<"0", "0", "/", "2", "5">>, <<"1", "3", "/", "2", "5">>,
    <<"1", "/", "2", "5">>, <<"1", "2", "-", "2", "5">>,
    <<"1", "2", "/", "2", "5", " ">> }

CvvFields == { <<"1", "2", "3">>, <<"1", "2">>, <<"1", "2", "a">> }

ZipFields == { Repeat("1", 5), Repeat("1", 4), Repeat("1", 6) }

RECURSIVE TextsUpTo(_, _)
TextsUpTo(alphabet, n) ==
  IF n = 0 THEN {<<>>}
  ELSE LET shorter == TextsUpTo(alphabet, n - 1)
       IN shorter \cup {<<c>> \o t : c \in alphabet, t \in shorter}

EmailFields == TextsUpTo({"a", "@", ".", " "}, MaxEmail)

\* Array.prototype.join(',')
RECURSIVE JoinComma(_)
JoinComma(fields) ==
  IF Len(fields) = 1 THEN fields[1]
  ELSE fields[1] \o <<",">> \o JoinComma(Tail(fields))

\* every combination of the first four fields with a good email, every email
\* behind four good fields, and lines of four and of six fields
SampleLines ==
  LET good == <<Repeat("4", 16), <<"1", "2", "/", "2", "5">>, <<"1", "2", "3">>,
                Repeat("1", 5), <<"a", "@", "a", ".", "a">>>>
      four == {<<n, e, c, z, good[5]>> : n \in CardNumberFields,
                                         e \in ExpiryFields,
                                         c \in CvvFields, z \in ZipFields}
      mail == {[good EXCEPT ![5] = m] : m \in EmailFields}
  IN {JoinComma(f) : f \in four \cup mail}
       \cup {JoinComma(SubSeq(good, 1, 4)), JoinComma(good \o <<<<"a">>>>)}

NextFormat ==
  \/ \E line \in SampleLines : FormatCall(line)
  \/ ValidateFormat

SpecFormat == InitIngest /\ [][NextFormat]_vars

\* ------------------------------------------------------------- claims
NoHandlerOn(o) == \A h \in Handlers : pc[h] = "idle" \/ req[h].order # o

\* C1: after any sequence of Success / Fail clicks on one order, the owner's
\* balance has been debited for that order at most once.
C1_AtMostOneDebit == \A o \in Orders : debits[o] <= 1

\* C2: two Success interactions on the same order that run concurrently never
\* both pass the charged == false guard and both persist a debit.
C2_NoConcurrentDoubleDebit ==
  \A h1, h2 \in Handlers :
    (h1 # h2 /\ req[h1].order = req[h2].order /\ pc[h1] = "saveOrder")
      => pc[h2] # "saveOrder"

\* C3: in every state, an order with charged = true has status delivered and a
\* non-null assigned card.
C3_ChargedImpliesDeliveredWithCard ==
  \A o \in Orders :
    orders[o].charged =>
      (orders[o].status = "delivered" /\ orders[o].assignedVccId # NULL)

\* C4: a Success interaction that finds the order already charged changes
\* neither the order (status, charged, completedAt) nor any balance.
C4_ResolveChargedIsNoOp ==
  [][\A h \in Handlers :
       (req[h].type = "success" /\ pc[h] = "saveElse" /\ pc'[h] # "saveElse")
         => (orders' = orders /\ users' = users)]_vars

\* C5: once an order is delivered or failed, no step changes its status.
C5_TerminalIsFinal ==
  [][\A o \in Orders :
       orders[o].status \in Terminal
         => orders'[o].status = orders[o].status]_vars

C8_DebitedIffCharged ==
  \A o \in Orders : NoHandlerOn(o) => ((debits[o] > 0) <=> orders[o].charged)

\* C9: a Fail interaction persists status = failed, charged = false and a
\* completion time, and none of its steps changes a user's balance.
C9_FailureSetsFailedNoDebit ==
  [][\A h \in Handlers :
       LET o == req[h].order
       IN req[h].type = "fail" =>
            /\ (pc'[h] # pc[h]) => users' = users
            /\ (/\ pc[h] = "findOrder" /\ pc'[h] # "findOrder"
                /\ orders[o].discordChannelId = ChannelOf(o))
                 => pc'[h] = "saveElse"
            /\ (pc[h] = "saveElse" /\ pc'[h] = "editMsg")
                 => (/\ orders'[o].status = "failed"
                     /\ ~orders'[o].charged
                     /\ orders'[o].completedAt # NULL
                     /\ lastReply' = "failed")]_vars

C9_Witness ==
  /\ lastReply = "failed"
  /\ \E h \in Handlers :
       /\ pc[h] = "editMsg" /\ req[h].type = "fail"
       /\ orders[req[h].order].status = "failed"
       /\ ~orders[req[h].order].charged
       /\ orders[req[h].order].completedAt # NULL

\* C10: on every day on which staff resolved orders, once no interaction is in
\* flight, successCount + failureCount of that day equals the number of
\* resolutions persisted that day.
C10_CountersMatchResolutions ==
  \A d \in Days :
    (InFlight = 0 /\ resolutions[d] > 0) => CountOf(d) = resolutions[d]

\* C11: once no call of updateDailyStats is in flight, a day on which only
\* success was counted has successCount equal to the number of calls made for
\* it, whether or not its record existed when the calls started.
C11_NoLostIncrement ==
  \A d \in Days :
    (StatsInFlight = 0 /\ statCalls[d].failureCount = 0)
      => (IF d \in DOMAIN dailyStats THEN dailyStats[d].successCount ELSE 0)
           = statCalls[d].successCount

\* C12: no card is referenced as assigned by two different orders.
C12_NoSharedCard ==
  \A o1, o2 \in DOMAIN orders :
    (o1 # o2 /\ orders[o1].assignedVccId # NULL)
      => orders[o1].assignedVccId # orders[o2].assignedVccId

\* C13: the step in which assignVccToOrder writes the card reference onto the
\* order leaves that card in status used, stamped with the order's number, and
\* out of the unused cards.
C13_AssignMarksCardUsed ==
  [][\A a \in Allocators :
       (alloc[a].pc = "update" /\ lastReply' = "assigned")
         => (/\ cards'[alloc[a].vcc].status = "used"
             /\ cards'[alloc[a].vcc].usedForOrderNumber = alloc[a].order)]_vars

\* C14: no step changes the status, the used-at time or the consuming order
\* number of a card that is used.
C14_UsedCardIsFrozen ==
  [][\A c \in DOMAIN cards :
       cards[c].status = "used"
         => (/\ cards'[c].status = "used"
             /\ cards'[c].usedAt = cards[c].usedAt
             /\ cards'[c].usedForOrderNumber
                  = cards[c].usedForOrderNumber)]_vars

\* C15: getUnusedVcc throws exactly when no card is unused; otherwise it
\* returns an unused card whose creation time no unused card precedes.
C15_OldestUnusedFirst ==
  [][\A a \in Allocators :
       (alloc[a].pc = "getUnused" /\ alloc'[a].pc # "getUnused")
         => IF \A c \in DOMAIN cards : cards[c].status # "unused"
              THEN lastReply' = "pool_exhausted" /\ alloc'[a].pc = "idle"
              ELSE /\ alloc'[a].pc = "update"
                   /\ lastReply' # "pool_exhausted"
                   /\ alloc'[a].vcc \in DOMAIN cards
                   /\ cards[alloc'[a].vcc].status = "unused"
                   /\ \A d \in DOMAIN cards :
                        cards[d].status = "unused"
                          => cards[alloc'[a].vcc].createdAt
                               <= cards[d].createdAt]_vars

C15_Witness ==
  \E a \in Allocators :
    /\ alloc[a].pc = "update"
    /\ \E d \in DOMAIN cards :
         /\ cards[d].status = "unused" /\ d < alloc[a].vcc
         /\ cards[alloc[a].vcc].createdAt < cards[d].createdAt

\* C16: a call of assignVccToOrder that fails (no unused card, or the order id
\* resolves to no order) changes no order's card reference or card data and
\* no card.
C16_FailedAssignChangesNothing ==
  [][\A a \in Allocators :
       (/\ alloc[a].pc # "idle" /\ alloc'[a].pc = "idle"
        /\ lastReply' \in {"pool_exhausted", "order_not_found"})
         => (/\ \A o \in DOMAIN orders :
                  /\ orders'[o].assignedVccId = orders[o].assignedVccId
                  /\ orders'[o].vccString = orders[o].vccString
             /\ cards' = cards)]_vars

C16_Witness ==
  /\ lastReply = "order_not_found"
  /\ \E c \in DOMAIN cards : cards[c].status = "unused"
  /\ \A o \in DOMAIN orders : orders[o].assignedVccId = NULL

\* a line that is not blank and matches the five-field schema
WellFormed(s) == ~s.blank /\ validateVccFormat(Trim(s)) = "none"

NonBlank(lines) == Cardinality({i \in DOMAIN lines : ~lines[i].blank})

HasFormatError(lines) ==
  \E i \in DOMAIN lines : ~lines[i].blank /\ ~WellFormed(lines[i])

\* the card numbers a store holds
NumbersIn(store) == {store[c].cardString.num : c \in DOMAIN store}

\* a well-formed line whose card number is in the store or on an earlier
\* well-formed line of the batch
HasDuplicate(lines, store) ==
  \E i \in DOMAIN lines :
    /\ WellFormed(lines[i])
    /\ \/ lines[i].num \in NumbersIn(store)
       \/ \E j \in 1..(i - 1) :
            WellFormed(lines[j]) /\ lines[j].num = lines[i].num

Returns(u) == ingest[u].pc # "idle" /\ ingest'[u].pc = "idle"

\* C17: a strict upload whose batch holds a format error or a duplicate
\* returns success = false, added = 0 and leaves the card store as it was
\* when the call started.
C17_RejectedBatchWritesNothing ==
  [][\A u \in Uploaders :
       (/\ Returns(u)
        /\ \/ HasFormatError(ingest[u].lines)
           \/ HasDuplicate(ingest[u].lines, ingest[u].before))
         => (/\ ingest'[u].result = [success |-> FALSE, added |-> 0]
             /\ cards' = ingest[u].before)]_vars

\* C18: a strict upload that returns success = false has persisted none of
\* the cards of its batch.
C18_FailedUploadPersistedNothing ==
  [][\A u \in Uploaders :
       (Returns(u) /\ ~ingest'[u].result.success) => ingest[u].added = 0]_vars

C20_StoredNumberIsFlagged ==
  [][\A u \in Uploaders :
       (ingest[u].pc = "validate" /\ ingest'[u].pc # "validate")
         => \A i \in DOMAIN ingest[u].lines :
              (/\ WellFormed(ingest[u].lines[i])
               /\ ingest[u].lines[i].num \in NumbersIn(cards))
                => i \in ingest[u].duplicates]_vars

\* C21: when the validator returns, a well-formed line is reported as a
\* duplicate under its own line number if an earlier well-formed line of the
\* batch has its card number; the first line with a card number is reported
\* only if its string is in the store.
C21_LaterOccurrencesFlagged ==
  [][\A u \in Uploaders :
       (ingest[u].pc = "validate" /\ ingest'[u].pc # "validate")
         => LET lines == ingest[u].lines
                Earlier(i) == {j \in 1..(i - 1) :
                                 /\ WellFormed(lines[j])
                                 /\ lines[j].num = lines[i].num}
            IN \A i \in DOMAIN lines :
                 WellFormed(lines[i]) =>
                   /\ Earlier(i) # {} => i \in ingest[u].duplicates
                   /\ (Earlier(i) = {} /\ i \in ingest[u].duplicates)
                        => \E c \in DOMAIN cards :
                             cards[c].cardString = Cleaned(Trim(lines[i]))
                   /\ i \notin ingest[u].errors]_vars

C21_Witness ==
  /\ ingest[1].pc = "validate"
  /\ ingest[1].i > Len(ingest[1].lines)
  /\ Len(ingest[1].lines) = 2
  /\ WellFormed(ingest[1].lines[1]) /\ WellFormed(ingest[1].lines[2])
  /\ ingest[1].lines[1].num = ingest[1].lines[2].num
  /\ ingest[1].lines[1] # ingest[1].lines[2]
  /\ ingest[1].duplicates = {2}

\* C22: no two cards of the store have the same normalized card string, and
\* an addVcc that finds its string in the store fails and adds nothing.
C22_UniqueCardStrings ==
  /\ [](\A c1, c2 \in DOMAIN cards :
          c1 # c2
            => Cleaned(cards[c1].cardString) # Cleaned(cards[c2].cardString))
  /\ [][\A l \in Adders :
          (/\ legacy[l].pc = "findOne"
           /\ legacy[l].i <= Len(legacy[l].lines)
           /\ legacy'[l] # legacy[l]
           /\ \E c \in DOMAIN cards :
                cards[c].cardString = Cleaned(legacy[l].lines[legacy[l].i]))
            => (/\ legacy'[l].failed = legacy[l].failed + 1
                /\ legacy'[l].added = legacy[l].added
                /\ cards' = cards)]_vars

C22_Witness ==
  /\ Len(cards) >= 2
  /\ \E l \in Adders : legacy[l].pc = "findOne" /\ legacy[l].failed > 0
                         /\ legacy[l].added > 0
  /\ ingest[1].result.success

\* C23: when a legacy upload returns, added + failed is the number of input
\* lines; the lines reported as failed are exactly those addVcc rejects (not
\* five fields once cleaned, or a string the store held or an earlier line
\* brought in); every other line is in the store as a new card.
C23_LegacyAdmitsLineByLine ==
  [][\A l \in Adders :
       (legacy[l].pc # "idle" /\ legacy'[l].pc = "idle")
         => LET lines == legacy[l].lines
                before == legacy[l].before
                Held(str) == \E c \in DOMAIN before :
                               before[c].cardString = str
                Accepted(i) ==
                  /\ FieldCount(Cleaned(lines[i])) = 5
                  /\ ~Held(Cleaned(lines[i]))
                  /\ \A j \in 1..(i - 1) :
                       Cleaned(lines[j]) # Cleaned(lines[i])
            IN /\ legacy[l].added + legacy[l].failed = Len(lines)
               /\ legacy[l].errors = {i \in DOMAIN lines : ~Accepted(i)}
               /\ legacy[l].failed = Cardinality(legacy[l].errors)
               /\ \A i \in DOMAIN lines :
                    Accepted(i) =>
                      \E c \in DOMAIN cards' :
                        /\ c > Len(before)
                        /\ cards'[c].cardString = Cleaned(lines[i])
                        /\ cards'[c].status = "unused"]_vars

C23_Witness ==
  /\ legacy[1].pc = "findOne"
  /\ legacy[1].i > Len(legacy[1].lines)
  /\ Len(legacy[1].lines) = 2
  /\ legacy[1].errors = {1}
  /\ legacy[1].added = 1
  /\ Len(cards) = Len(legacy[1].before) + 1

\* C24: with the unused count at or below the threshold, two inventory
\* checks within one cooldown of each other send at most one alert; the
\* check that sends the second one may be any but the message command's
\* forced evaluation.
C24_OneAlertPerCooldown ==
  IsLow(UnusedCount) =>
    \A i, j \in DOMAIN alerts :
      (i < j /\ alerts[j].by # "forced")
        => alerts[j].at - alerts[i].at >= alertCooldown

\* C25: a check that ends without having sent an alert (inventory healthy,
\* cooldown running, or the send failed) leaves the last-alert timestamp as
\* it was when the check began.
C25_TimestampOnlyOnAlert ==
  [][\A k \in Checkers :
       (check[k].pc # "idle" /\ check'[k].pc = "idle" /\ alerts' = alerts)
         => lastAlertSent' = check[k].entry]_vars

\* a forced check whose send failed has put a non-zero timestamp back, and
\* a forced check has found the inventory healthy
C25_Witness ==
  /\ check[1].pc = "idle"
  /\ check[1].forced
  /\ check[1].outcome = "failed"
  /\ check[1].entry > 0
  /\ lastAlertSent = check[1].entry

\* C26: the timer's check that interleaves with a forced check honours the
\* cooldown: it goes on to send an alert only when no alert was sent within
\* the last cooldown.
C26_PeriodicHonoursCooldown ==
  [][\A k \in Checkers :
       (~check[k].forced /\ check[k].pc = "stats" /\ check'[k].pc = "send")
         => \A i \in DOMAIN alerts :
              dateNow - alerts[i].at >= alertCooldown]_vars

\* C27: the automatic monitor alerts only below the threshold of 10 unused
\* cards.
C27_AutomaticAlertBelowThreshold ==
  \A i \in DOMAIN alerts :
    alerts[i].by = "periodic" => alerts[i].unused < VCC_LOW_THRESHOLD

\* C28: a poller step that writes an order writes one that was
\* payment_verified without a ticket reference, and sets the reference to the
\* new channel and the status to queued together.
C28_PollerTouchesOnlyPending ==
  [][\A o \in PollOrders :
       orders'[o] # orders[o]
         => /\ orders[o].status = "payment_verified"
            /\ orders[o].discordChannelId = NULL
            /\ orders'[o].status = "queued"
            /\ \E p \in Pollers : orders'[o].discordChannelId = poll[p].channel
            /\ orders'[o].discordChannelId # NULL]_vars

\* C29: when createDiscordTicket fails for an order, the order is as it was
\* and the loop goes on to the next order of the batch.
C29_FailureIsIsolated ==
  [][\A p \in Pollers :
       (poll[p].pc # "idle" /\ poll'[p].failed # poll[p].failed)
         => LET o == Current(poll[p])
            IN /\ orders'[o] = orders[o]
               /\ poll[p].i < Len(poll[p].batch)
                    => /\ poll'[p].pc = "create"
                       /\ poll'[p].batch = poll[p].batch
                       /\ poll'[p].i = poll[p].i + 1]_vars

\* in one run the ticket of an order failed and a later order of the batch
\* was queued
C29_Witness ==
  \E p \in Pollers : \E i, j \in DOMAIN poll[p].batch :
    /\ i < j
    /\ poll[p].batch[i] \in poll[p].failed
    /\ orders[poll[p].batch[i]].status = "payment_verified"
    /\ orders[poll[p].batch[i]].discordChannelId = NULL
    /\ poll[p].batch[j] \notin poll[p].failed
    /\ orders[poll[p].batch[j]].status = "queued"

\* C30: an order that is payment_verified without a ticket is eventually
\* queued with a ticket, when the poller keeps running and ticket creation
\* for that order succeeds, whatever happens to the other orders.
C30_PendingEventuallyQueued ==
  <>(/\ orders[LastOrder].status = "queued"
     /\ orders[LastOrder].discordChannelId # NULL)

\* C31: the first /close in the ticket channel of an order that is neither
\* delivered nor failed sets no deletion timer.
C31_FirstCloseWarnsOnly ==
  \A o \in Orders :
    (orders[o].status \notin Terminal /\ chan[o].requests <= 1)
      => chan[o].deleteAt = NULL

\* C32: for an order that is neither delivered nor failed, a /close issued
\* while a warning younger than 10 seconds stands sets the deletion timer,
\* and a /close issued when the last warning is older is warned and sets no
\* timer.
C32_SecondCloseWithinWindow ==
  [][(closer.pc # "idle" /\ closer'.pc = "idle"
      /\ orders[closer.order].status \notin Terminal)
       => LET o == closer.order
              age == closer.issuedAt - closer.lastWarning
          IN closer.lastWarning # NULL
               => IF age < CloseWindow
                    THEN chan'[o].deleteAt # NULL
                    ELSE age > CloseWindow
                           => /\ chan'[o].deleteAt = NULL
                              /\ chan'[o].warnedAt >= closer.issuedAt]_vars

\* C33: the claim action leaves every order, every user's balance, every card
\* and the daily counters as they were.
C33_ClaimIsPresentationOnly ==
  [][(\E o \in Orders : ticket[o] = "claim" /\ ticket'[o] = "resolve")
       => /\ orders' = orders
          /\ users' = users
          /\ cards' = cards
          /\ dailyStats' = dailyStats]_vars

\* a ticket has been claimed: its Success and Fail buttons are enabled
C33_Witness ==
  \E o \in Orders : /\ ticket[o] = "resolve"
                    /\ orders[o].status = "queued"
                    /\ orders[o].discordChannelId = ChannelOf(o)

\* C34: when validateVccBatch returns, every non-blank line that is malformed,
\* or well-formed with a card number held by the store or by an earlier
\* well-formed line, has exactly one entry, tagged with its position in the
\* input counting blank lines.
C34_EveryBadLineHasOneEntry ==
  [][\A u \in Uploaders :
       (ingest[u].pc = "validate" /\ ingest'[u].pc # "validate")
         => \A i \in DOMAIN ingest[u].lines :
              LET lines == ingest[u].lines
                  bad == /\ ~lines[i].blank
                         /\ \/ ~WellFormed(lines[i])
                            \/ lines[i].num \in NumbersIn(ingest[u].before)
                            \/ \E j \in 1..(i - 1) :
                                 /\ WellFormed(lines[j])
                                 /\ lines[j].num = lines[i].num
              IN bad => (i \in ingest[u].errors) # (i \in ingest[u].duplicates)]_vars

\* the fields of a line, each without its surrounding whitespace
FieldsOf(line) ==
  [i \in DOMAIN SplitComma(line) |-> TrimText(SplitComma(line)[i])]

\* the first four fields are a 16-digit card number, an MM/YY expiry with a
\* month in 1..12, a 3-digit security code and a 5-digit postal code
FourFieldsShaped(f) ==
  /\ Len(f[1]) = 16 /\ \A i \in 1..16 : IsDigit(f[1][i])
  /\ Len(f[2]) = 5 /\ f[2][3] = "/"
  /\ \A i \in {1, 2, 4, 5} : IsDigit(f[2][i])
  /\ 10 * DigitValue(f[2][1]) + DigitValue(f[2][2]) \in 1..12
  /\ Len(f[3]) = 3 /\ \A i \in 1..3 : IsDigit(f[3][i])
  /\ Len(f[4]) = 5 /\ \A i \in 1..5 : IsDigit(f[4][i])

\* an '@' followed later by a '.'
AtThenDot(m) == \E i, j \in DOMAIN m : i < j /\ m[i] = "@" /\ m[j] = "."

\* no whitespace, exactly one '@' with something before it, and after it a
\* '.' with something on each side
LocalAtDomain(m) ==
  /\ m # <<>>
  /\ \A k \in DOMAIN m : m[k] # " "
  /\ Cardinality({k \in DOMAIN m : m[k] = "@"}) = 1
  /\ m[1] # "@"
  /\ \E j \in 2..(Len(m) - 1) : /\ m[j] = "."
                                /\ m[j - 1] # "@"
                                /\ \E i \in 1..(j - 1) : m[i] = "@"

C36_ReadsTodaysRecord ==
  [][(report.pc = "findOne" /\ report'.pc = "done")
       => report'.stats = (IF report.day \in DOMAIN dailyStats
                             THEN dailyStats[report.day] ELSE NewStats)]_vars


RECURSIVE SumOf(_, _)
SumOf(f, S) ==
  IF S = {} THEN 0
  ELSE LET x == CHOOSE y \in S : TRUE IN f[x] + SumOf(f, S \ {x})

OrdersOf(u) == {o \in Orders : orders[o].userId = u}

\* what the Success button has taken from the balance of user u
RemovedFrom(u) ==
  SumOf([o \in Orders |-> debits[o] * orders[o].chargeCents], OrdersOf(u))

\* the charge amounts of the orders of user u whose charged flag is true
ChargedTotal(u) ==
  SumOf([o \in Orders |-> IF orders[o].charged THEN orders[o].chargeCents
                          ELSE 0], OrdersOf(u))

\* C37: for every user with no Success or Fail interaction in flight on their
\* orders, the amount taken from the balance equals the sum of the charge
\* amounts of their orders whose charged flag is true
C37_RemovedEqualsCharged ==
  \A u \in Users :
    (\A o \in OrdersOf(u) : NoHandlerOn(o)) => RemovedFrom(u) = ChargedTotal(u)


\* C38: at most one ticket channel is ever created for an order
C38_OneChannelPerOrder == \A o \in PollOrders : channels[o] <= 1


\* C39: a file that answers the /vcc-upload prompt goes through
\* bulkAddVccsStrict alone: from its arrival on, whichever ingestion holds its
\* lines, a file with an ill-formed line leaves the card store as it was
C39_InvalidFileWritesNothing ==
  /\ \A u \in Uploaders :
       (ingest[u].lines # <<>> /\ HasFormatError(ingest[u].lines))
         => cards = ingest[u].before
  /\ \A l \in Adders :
       (legacy[l].lines # <<>> /\ HasFormatError(legacy[l].lines))
         => cards = legacy[l].before


\* the step debits balanceCents for order o (Success button)
ButtonDebits(o) == debits'[o] > debits[o]

\* the step debits walletBalance for order o (/complete-order)
CommandDebits(o) ==
  /\ orders'[o].status = "delivered"
  /\ orders[o].status # "delivered"
  /\ users'[orders[o].userId].walletBalance
       < users[orders[o].userId].walletBalance

=============================================================================
